---- MODULE Spec2Model ----
(***************************************************************************)
(* State-machine model of the Orders screen (src/app/(tabs)/orders.tsx)    *)
(* of the Komal Agencies order-management app: staged/committed filters,   *)
(* the debounced search text, the orders cache with its load requests,     *)
(* the derived (filtered) list and the selection of old completed orders.  *)
(*                                                                         *)
(* Conventions                                                             *)
(*   - A JavaScript string that the code only compares (bit, status,       *)
(*     filter value) is a TLA+ string; Undefined stands for undefined.     *)
(*   - A string the code searches in (counterName, search text) is a       *)
(*     sequence of one-character strings.                                  *)
(*   - A date string is the sequence of its '/'-separated segments.        *)
(*   - A Date is a record [valid, t]; t counts minutes since               *)
(*     2024-01-01T00:00Z, an Invalid Date has valid = FALSE.               *)
(***************************************************************************)
EXTENDS Integers, Sequences, FiniteSets, TLC

----------------------------------------------------------------------------
(* Bounds of the model *)

\* longest orders payload a response carries
MaxOrders == 2

\* most requests in flight at once
MaxInFlight == 2

\* largest quantity typed into a quantity input
MaxQty == 2

\* granularity of the timer clock, in milliseconds
TickMs == 100

\* longest search text typed
MaxQueryLen == 2

----------------------------------------------------------------------------
(* JavaScript values *)

Undefined == "<undefined>"

\* truthiness of a string-or-undefined value
Truthy(x) == x # Undefined /\ x # ""

\* a || b
OrElse(a, b) == IF Truthy(a) THEN a ELSE b

\* String.prototype.toLowerCase, one character
LowerChar(c) ==
  CASE c = "A" -> "a"
    [] c = "B" -> "b"
    [] OTHER -> c

\* String.prototype.toLowerCase
toLowerCase(s) == [i \in 1..Len(s) |-> LowerChar(s[i])]

\* String.prototype.trim
RECURSIVE TrimLeft(_)
TrimLeft(s) == IF s # <<>> /\ Head(s) = " " THEN TrimLeft(Tail(s)) ELSE s

RECURSIVE TrimRight(_)
TrimRight(s) ==
  IF s # <<>> /\ s[Len(s)] = " " THEN TrimRight(SubSeq(s, 1, Len(s) - 1)) ELSE s

trim(s) == TrimRight(TrimLeft(s))

\* String.prototype.includes
includes(hay, needle) ==
  \E i \in 0..(Len(hay) - Len(needle)) :
     SubSeq(hay, i + 1, i + Len(needle)) = needle

\* Array.prototype.reverse
reverse(s) == [i \in 1..Len(s) |-> s[Len(s) + 1 - i]]

----------------------------------------------------------------------------
(* Dates.  The model calendar is January to May 2024; the 1st of January  *)
(* 2024 is day 0, a Monday.                                                *)

MinutesPerDay == 1440

\* day number of the first day of each month, January to June
MonthStarts == <<0, 31, 60, 91, 121, 152>>

NumMonths == Len(MonthStarts) - 1

DaysIn(m) == MonthStarts[m + 1] - MonthStarts[m]

\* Date.prototype.getDay of a local day number (0 = Sunday)
getDay(day) == (day + 1) % 7

\* day number of the first day of the month that holds the day
FirstOfMonth(day) ==
  LET m == CHOOSE k \in 1..NumMonths :
             MonthStarts[k] <= day /\ day < MonthStarts[k + 1]
  IN  MonthStarts[m]

InvalidDate == [valid |-> FALSE, t |-> 0]

MkDate(t) == [valid |-> TRUE, t |-> t]

\* a >= b on Dates: false when either side is an Invalid Date (NaN)
DateGe(a, b) == a.valid /\ b.valid /\ a.t >= b.t

\* a <= b on Dates
DateLe(a, b) == a.valid /\ b.valid /\ a.t <= b.t

\* local calendar day of an instant in a zone tz minutes east of UTC
LocalDay(t, tz) == (t + tz) \div MinutesPerDay

\* new Date(year, monthIndex, day): local midnight, day and month roll over
LocalMidnight(day, tz) == day * MinutesPerDay - tz

\* segments of a date string
Num(n) == [kind |-> "num", n |-> n]
IsoSeg(m, d) == [kind |-> "iso", m |-> m, d |-> d]
Word == [kind |-> "word"]

\* the string DD/MM/2024
Dmy(d, m) == <<Num(d), Num(m), Num(2024)>>

\* the string 2024-MM-DD
Iso(m, d) == <<IsoSeg(m, d)>>

\* a string without digits, such as "pending"
Text == <<Word>>

\* toLocaleDateString('en-GB') of a day of the model calendar
FormatDay(day) ==
  LET m == CHOOSE k \in 1..NumMonths :
             MonthStarts[k] <= day /\ day < MonthStarts[k + 1]
  IN  Dmy(day - MonthStarts[m] + 1, m)

\* new Date("YYYY-MM-DD"): a date-only ISO string is UTC midnight of that
\* day, any other text or an out-of-range field is an Invalid Date
IsoDate(y, m, d) ==
  IF y = 2024 /\ m \in 1..NumMonths /\ d >= 1 /\ d <= DaysIn(m)
  THEN MkDate((MonthStarts[m] + d - 1) * MinutesPerDay)
  ELSE InvalidDate

\* new Date(order.date.split('/').reverse().join('-'))
ParseForFilter(date) ==
  LET r == reverse(date)
  IN  IF Len(r) = 3 /\ \A i \in 1..3 : r[i].kind = "num"
      THEN IsoDate(r[1].n, r[2].n, r[3].n)
      ELSE IF Len(r) = 1 /\ r[1].kind = "iso"
           THEN IsoDate(2024, r[1].m, r[1].d)
           ELSE InvalidDate

\* parseInt of a segment; -1 stands for NaN
NaN == 0 - 1
parseInt(date, i) ==
  IF i > Len(date) THEN NaN
  ELSE CASE date[i].kind = "num" -> date[i].n
         [] date[i].kind = "iso" -> 2024
         [] OTHER -> NaN

\* const [day, month, year] = order.date.split('/');
\* new Date(parseInt(year), parseInt(month) - 1, parseInt(day))
ParseForCleanup(date, tz) ==
  LET day == parseInt(date, 1)
      month == parseInt(date, 2)
      year == parseInt(date, 3)
  IN  IF day = NaN \/ month = NaN \/ year = NaN THEN InvalidDate
      ELSE IF year = 2024 /\ month \in 1..NumMonths
           THEN MkDate(LocalMidnight(MonthStarts[month] + day - 1, tz))
           ELSE InvalidDate

\* the thresholds held by dateFilterFunctions, computed from new Date()
MakeDateFilterFunctions(now, tz) ==
  LET today == LocalDay(now, tz)
  IN  [startOfToday |-> MkDate(LocalMidnight(today, tz)),
       startOfWeek  |-> MkDate(now - getDay(today) * MinutesPerDay),
       startOfMonth |-> MkDate(LocalMidnight(FirstOfMonth(today), tz))]

\* the switch over dateFilter inside filteredOrders
DatePasses(dateFilter, orderDate, dff) ==
  CASE dateFilter = "today" -> DateGe(orderDate, dff.startOfToday)
    [] dateFilter = "week"  -> DateGe(orderDate, dff.startOfWeek)
    [] dateFilter = "month" -> DateGe(orderDate, dff.startOfMonth)
    [] OTHER -> TRUE

----------------------------------------------------------------------------
(* The derived list and the cleanup selection *)

FilterByBits(os, bits) ==
  IF bits # "all" THEN SelectSeq(os, LAMBDA o : o.bit = bits) ELSE os

\* a status filter that trusts the cache to hold the committed status only
FilterByStatusTrusting(os, status) == os

FilterByStatus(os, status) ==
  IF status # "all" THEN SelectSeq(os, LAMBDA o : o.status = status) ELSE os

FilterByDate(os, date, dff) ==
  IF date # "all"
  THEN SelectSeq(os, LAMBDA o : DatePasses(date, ParseForFilter(o.date), dff))
  ELSE os

FilterBySearch(os, search) ==
  IF trim(search) # <<>>
  THEN SelectSeq(os, LAMBDA o :
         includes(toLowerCase(o.counterName), toLowerCase(search)))
  ELSE os

\* a derivation whose search step filters the whole cache again
filterOrdersSearchAll(os, bits, status, date, search, dff) ==
  IF trim(search) # <<>>
  THEN FilterBySearch(os, search)
  ELSE FilterByDate(FilterByStatus(FilterByBits(os, bits), status), date, dff)

\* the useMemo body of filteredOrders
filterOrders(os, bits, status, date, search, dff) ==
  FilterBySearch(
    FilterByDate(FilterByStatus(FilterByBits(os, bits), status), date, dff),
    search)

\* a selection with a 30-day window
getOldCompletedOrders30(allOrders, now, tz) ==
  LET thirtyDaysAgo == MkDate(now - 30 * MinutesPerDay)
  IN  SelectSeq(allOrders, LAMBDA o :
        IF o.status # "Completed" THEN FALSE
        ELSE DateLe(ParseForCleanup(o.date, tz), thirtyDaysAgo))

\* getOldCompletedOrders(allOrders), called at instant now in zone tz
getOldCompletedOrders(allOrders, now, tz) ==
  LET thirtyOneDaysAgo == MkDate(now - 31 * MinutesPerDay)
  IN  SelectSeq(allOrders, LAMBDA o :
        IF o.status # "Completed" THEN FALSE
        ELSE DateLe(ParseForCleanup(o.date, tz), thirtyOneDaysAgo))

----------------------------------------------------------------------------
(* State of one OrdersScreen instance *)

VARIABLES
  mounted,               \* the screen instance is mounted
  incoming,              \* route params bitsFilter/statusFilter/dateFilter
  refreshing,            \* pull-to-refresh flag
  searchQuery,           \* text of the search input
  debouncedSearchQuery,  \* search text that feeds filteredOrders
  statusFilter,          \* committed filters
  dateFilter,
  bitsFilter,
  tempStatusFilter,      \* staged filters of the modal
  tempDateFilter,
  tempBitsFilter,
  isModalVisible,
  orders,                \* the orders cache
  isLoading,
  debounceTimeoutRef,    \* id of the last timer set, 0 for null
  timers,                \* pending timers: [id, remaining, value]
  dateFilterFunctions,   \* thresholds computed once, at mount
  now,                   \* wall clock: the instant new Date() returns
  tz,                    \* zone of the device, minutes east of UTC
  inflight,              \* requests awaiting their response, in issue order
  oldOrders,             \* orders listed by the cleanup confirmation dialog
  allOrders,             \* history: payload of the last cleanup fetch
  lastOp,                \* history: name of the last step
  lastApplied,           \* history: filters committed by the last Apply
  commitSource,          \* history: what set the committed filters last
  sinceKey,              \* history: ms since the last search-text change
  burstFires,            \* history: timer firings since the burst began
  burstKeys,             \* history: text changes of the burst, up to 2
  deleteDialog,          \* open 'Delete Order' dialogs: at most one
  cleanupLoad,           \* filters of the loadOrders the cleanup dialog holds
  lastAlert,             \* title and text of the message shown last
  form,                  \* the form screen on top of the tabs, or "none"
  route,                 \* the navigation a form asked for last, or ""
  formDialog,            \* the dialog a form awaits an answer to, or ""
  order,                 \* edit-order: the order under edit, <<>> for null
  orderItems,            \* item list of the order form
  selectedDate,          \* edit-order: the Date of the date picker
  isSaving,              \* edit-order: an update request is in flight
  isCreatingOrder,       \* order-summary: a create request is in flight
  isCreating,            \* new-item, new-retailer: a create is in flight
  productName,           \* new-item: text of the name input
  selectedBrand,         \* new-item: name picked in the dropdown, or ""
  newBrandName,          \* new-item: text of the new-brand input
  brands,                \* new-item: the brands loaded at mount
  retailerName,          \* new-retailer: text of the name input
  phoneNo,               \* new-retailer: text of the phone input
  selectedBit,           \* new-retailer: bit picked in the dropdown, or ""
  products,              \* items tab: the products of the last load
  itemsLoading,          \* items tab: isLoading
  isCleaningUp,          \* items tab: a brand cleanup is running
  storedOrder            \* backend: the order field stored for each brand id

vars == <<mounted, incoming, refreshing, searchQuery, debouncedSearchQuery,
          statusFilter, dateFilter, bitsFilter, tempStatusFilter,
          tempDateFilter, tempBitsFilter, isModalVisible, orders, isLoading,
          debounceTimeoutRef, timers, dateFilterFunctions, now, tz, inflight,
          oldOrders, allOrders, lastOp, lastApplied, commitSource, sinceKey,
          burstFires, burstKeys, deleteDialog, cleanupLoad, lastAlert,
          form, route, formDialog, order, orderItems, selectedDate, isSaving,
          isCreatingOrder, isCreating, productName, selectedBrand,
          newBrandName, brands, retailerName, phoneNo, selectedBit,
          products, itemsLoading, isCleaningUp, storedOrder>>

filterVars == <<statusFilter, dateFilter, bitsFilter>>
tempVars == <<tempStatusFilter, tempDateFilter, tempBitsFilter>>
searchVars == <<searchQuery, debouncedSearchQuery, debounceTimeoutRef, timers,
                sinceKey, burstFires, burstKeys>>
clockVars == <<dateFilterFunctions, now, tz>>
cleanupVars == <<oldOrders, allOrders>>
historyVars == <<lastApplied, commitSource>>
dialogVars == <<deleteDialog, cleanupLoad, lastAlert>>
editVars == <<order, selectedDate, isSaving>>
itemsVars == <<products, itemsLoading, isCleaningUp>>
productVars == <<productName, selectedBrand, newBrandName, brands, itemsVars>>
backendVars == <<storedOrder>>
\* the inputs of new-retailer, and what no screen but new-order reaches
retailerVars == <<retailerName, phoneNo, selectedBit, backendVars>>
formVars == <<form, route, formDialog, orderItems, editVars, isCreatingOrder,
              isCreating, productVars, retailerVars>>

\* the state of the Orders screen that no form touches
ordersVars == <<mounted, incoming, refreshing, filterVars, tempVars,
                isModalVisible, orders, isLoading, searchVars, clockVars,
                cleanupVars, historyVars, deleteDialog, cleanupLoad>>

\* no order form is open
FormClosed ==
  /\ form = "none" /\ route = "" /\ formDialog = ""
  /\ order = <<>> /\ orderItems = <<>>
  /\ selectedDate = [valid |-> FALSE, t |-> 0]
  /\ isSaving = FALSE /\ isCreatingOrder = FALSE /\ isCreating = FALSE
  /\ productName = <<>> /\ selectedBrand = "" /\ newBrandName = <<>>
  /\ brands = <<>>
  /\ products = <<>> /\ itemsLoading = FALSE /\ isCleaningUp = FALSE
  /\ retailerName = <<>> /\ phoneNo = <<>> /\ selectedBit = ""
  /\ storedOrder = <<>>

\* the committed filters, as one record
Committed ==
  [bits |-> bitsFilter, status |-> statusFilter, date |-> dateFilter]

\* the staged filters, as one record
Staged ==
  [bits |-> tempBitsFilter, status |-> tempStatusFilter,
   date |-> tempDateFilter]

\* the list the screen renders
filteredOrders ==
  filterOrders(orders, bitsFilter, statusFilter, dateFilter,
               debouncedSearchQuery, dateFilterFunctions)

----------------------------------------------------------------------------
(* Requests *)

\* delay of the debounce timer, in milliseconds
DebounceMs == 300

\* orderAPI.getAll(bit, status, search): the query string it builds
getAll(bit, status, search, cont) ==
  [api    |-> "orders.getAll",
   bit    |-> IF Truthy(bit) /\ bit # "all" THEN bit ELSE Undefined,
   status |-> IF Truthy(status) THEN status ELSE Undefined,
   search |-> IF Truthy(search) THEN search ELSE Undefined,
   cont   |-> cont]

\* a loadOrders that reads the committed filters of its closure only
loadOrdersCommitted(customBitsFilter, customStatusFilter, cont) ==
  getAll(IF bitsFilter = "all" THEN Undefined ELSE bitsFilter,
         IF statusFilter = "all" THEN Undefined ELSE statusFilter,
         Undefined, cont)

\* the request loadOrders(customBitsFilter, customStatusFilter) issues
loadOrders(customBitsFilter, customStatusFilter, cont) ==
  LET b == OrElse(customBitsFilter, bitsFilter)
      s == OrElse(customStatusFilter, statusFilter)
  IN  getAll(IF b = "all" THEN Undefined ELSE b,
             IF s = "all" THEN Undefined ELSE s,
             Undefined, cont)

\* the request of the loadOrders a callback created in an earlier render
\* holds: c are the committed bit and status filters of that render
loadOrdersIn(c, customBitsFilter, customStatusFilter, cont) ==
  LET b == OrElse(customBitsFilter, c.bits)
      s == OrElse(customStatusFilter, c.status)
  IN  getAll(IF b = "all" THEN Undefined ELSE b,
             IF s = "all" THEN Undefined ELSE s,
             Undefined, cont)

\* the loadOrders that callbacks created in the current render hold
LoadClosure == [bits |-> bitsFilter, status |-> statusFilter]

\* orderAPI.delete(id)
delete(id) == [api |-> "orders.delete", id |-> id]

\* orderAPI.deleteOldCompleted(orderIds): one request for the whole batch
deleteOldCompleted(orderIds) ==
  [api |-> "orders.deleteOldCompleted", ids |-> orderIds]

\* the ids of a list of orders, in its order
OrderIds(os) == [j \in 1..Len(os) |-> os[j].id]

\* the sequence without its i-th element
RemoveAt(s, i) == SubSeq(s, 1, i - 1) \o SubSeq(s, i + 1, Len(s))

\* a fresh timer id: JavaScript never hands out the id of a pending timer
FreshTimerId == CHOOSE k \in 1..(Cardinality(timers) + 1) :
                  \A t \in timers : t.id # k

\* clearTimeout(id)
clearTimeout(ts, id) == {t \in ts : t.id # id}

\* a debounce effect that sets a timer without clearing the one before
DebounceEffectNoClear(ts, ref, query) ==
  ts \cup {[id |-> FreshTimerId, remaining |-> DebounceMs, value |-> query]}

\* the debounce effect: clear the timer of the ref, set a new one
DebounceEffect(ts, ref, query) ==
  LET cleared == IF ref # 0 THEN clearTimeout(ts, ref) ELSE ts
  IN  cleared \cup {[id |-> FreshTimerId, remaining |-> DebounceMs,
                     value |-> query]}

----------------------------------------------------------------------------
(* Mount *)

\* the requests of the two effects that load orders at mount: the mount
\* effect, then the route-params effect when a param is set
MountLoads(p) ==
  <<loadOrders(Undefined, Undefined, "load")>>
  \o (IF Truthy(p.bits) \/ Truthy(p.status) \/ Truthy(p.date)
      THEN <<loadOrders(OrElse(p.bits, "all"), OrElse(p.status, "all"),
                        "load")>>
      ELSE <<>>)

\* state of the screen, but for the search input and the loads, after the
\* first render and its effects, for route params p, at instant t in zone z
MountTab(p, t, z) ==
  /\ mounted = TRUE
  /\ incoming = p
  /\ refreshing = FALSE
  /\ statusFilter = OrElse(p.status, "all")
  /\ dateFilter = OrElse(p.date, "all")
  /\ bitsFilter = OrElse(p.bits, "all")
  /\ tempStatusFilter = "all"
  /\ tempDateFilter = "all"
  /\ tempBitsFilter = "all"
  /\ isModalVisible = FALSE
  /\ orders = <<>>
  /\ dateFilterFunctions = MakeDateFilterFunctions(t, z)
  /\ now = t
  /\ tz = z
  /\ oldOrders = <<>>
  /\ allOrders = <<>>
  /\ deleteDialog = <<>>
  /\ cleanupLoad = [bits |-> "all", status |-> "all"]
  /\ lastAlert = ""
  /\ lastApplied = [bits |-> OrElse(p.bits, "all"),
                    status |-> OrElse(p.status, "all"),
                    date |-> OrElse(p.date, "all")]
  /\ commitSource = "init"

\* the same, with no form on top of the tabs
MountScreen(p, t, z) == MountTab(p, t, z) /\ FormClosed

\* state after the first render and its effects
Mount(p, t, z) ==
  /\ MountScreen(p, t, z)
  /\ isLoading = TRUE
  /\ inflight = MountLoads(p)
  /\ searchQuery = <<>>
  /\ debouncedSearchQuery = <<>>
  /\ debounceTimeoutRef = 1
  /\ timers = {[id |-> 1, remaining |-> DebounceMs, value |-> <<>>]}
  /\ lastOp = "mount"
  /\ sinceKey = 0
  /\ burstFires = 0
  /\ burstKeys = 0

\* the screen a while after the mount: the text q was typed into the
\* search input and its debounce timer has fired; the last load of the
\* mount is still in flight and the one before it, if any, has failed
Settled(p, q, t, z) ==
  /\ MountScreen(p, t, z)
  /\ isLoading = (Len(MountLoads(p)) = 1)
  /\ inflight = <<MountLoads(p)[Len(MountLoads(p))]>>
  /\ searchQuery = q
  /\ debouncedSearchQuery = q
  /\ debounceTimeoutRef = 1
  /\ timers = {}
  /\ lastOp = "timer"
  /\ sinceKey = DebounceMs
  /\ burstFires = 1
  /\ burstKeys = IF q = <<>> THEN 0 ELSE 1

\* the tab a while after a mount with params p, its load answered with
\* no orders, when a form screen is pushed on top of it
QuietTab(p, t, z) ==
  /\ MountTab(p, t, z)
  /\ isLoading = FALSE
  /\ inflight = <<>>
  /\ searchQuery = <<>>
  /\ debouncedSearchQuery = <<>>
  /\ debounceTimeoutRef = 1
  /\ timers = {}
  /\ lastOp = "timer"
  /\ sinceKey = DebounceMs
  /\ burstFires = 1
  /\ burstKeys = 0

----------------------------------------------------------------------------
(* Filter modal *)

\* an open that shows the modal with the staged filters as they were left
OpenFilterModalKeepsStaged ==
  /\ mounted /\ ~isModalVisible
  /\ isModalVisible' = TRUE
  /\ lastOp' = "open"
  /\ UNCHANGED <<mounted, incoming, refreshing, filterVars, tempVars, orders,
                 isLoading, searchVars, clockVars, inflight, cleanupVars,
                 historyVars, dialogVars, formVars>>

\* handleOpenFilterModal
OpenFilterModal ==
  /\ mounted /\ ~isModalVisible
  /\ tempStatusFilter' = statusFilter
  /\ tempDateFilter' = dateFilter
  /\ tempBitsFilter' = bitsFilter
  /\ isModalVisible' = TRUE
  /\ lastOp' = "open"
  /\ UNCHANGED <<mounted, incoming, refreshing, filterVars, orders,
                 isLoading, searchVars, clockVars, inflight, cleanupVars,
                 historyVars,
                 dialogVars, formVars>>

\* onPress of a Bits option of the modal
SetTempBitsFilter(v) ==
  /\ mounted /\ isModalVisible
  /\ tempBitsFilter' = v
  /\ lastOp' = "stage"
  /\ UNCHANGED <<mounted, incoming, refreshing, filterVars, tempStatusFilter,
                 tempDateFilter, isModalVisible, orders, isLoading,
                 searchVars, clockVars, inflight, cleanupVars, historyVars,
                 dialogVars, formVars>>

\* onPress of a Status option of the modal
SetTempStatusFilter(v) ==
  /\ mounted /\ isModalVisible
  /\ tempStatusFilter' = v
  /\ lastOp' = "stage"
  /\ UNCHANGED <<mounted, incoming, refreshing, filterVars, tempBitsFilter,
                 tempDateFilter, isModalVisible, orders, isLoading,
                 searchVars, clockVars, inflight, cleanupVars, historyVars,
                 dialogVars, formVars>>

\* onPress of a Date Range option of the modal
SetTempDateFilter(v) ==
  /\ mounted /\ isModalVisible
  /\ tempDateFilter' = v
  /\ lastOp' = "stage"
  /\ UNCHANGED <<mounted, incoming, refreshing, filterVars, tempBitsFilter,
                 tempStatusFilter, isModalVisible, orders, isLoading,
                 searchVars, clockVars, inflight, cleanupVars, historyVars,
                 dialogVars, formVars>>

\* Clear All that also resets the committed filters
ClearAllFiltersCommitted ==
  /\ mounted /\ isModalVisible
  /\ tempStatusFilter' = "all"
  /\ tempDateFilter' = "all"
  /\ tempBitsFilter' = "all"
  /\ statusFilter' = "all"
  /\ dateFilter' = "all"
  /\ bitsFilter' = "all"
  /\ lastOp' = "clear"
  /\ UNCHANGED <<mounted, incoming, refreshing, isModalVisible,
                 orders, isLoading, searchVars, clockVars, inflight,
                 cleanupVars, historyVars,
                 dialogVars, formVars>>

\* handleClearAllFilters
ClearAllFilters ==
  /\ mounted /\ isModalVisible
  /\ tempStatusFilter' = "all"
  /\ tempDateFilter' = "all"
  /\ tempBitsFilter' = "all"
  /\ lastOp' = "clear"
  /\ UNCHANGED <<mounted, incoming, refreshing, filterVars, isModalVisible,
                 orders, isLoading, searchVars, clockVars, inflight,
                 cleanupVars, historyVars,
                 dialogVars, formVars>>

\* a dismissal that commits the staged filters
DismissModalCommits ==
  /\ mounted /\ isModalVisible
  /\ isModalVisible' = FALSE
  /\ statusFilter' = tempStatusFilter
  /\ dateFilter' = tempDateFilter
  /\ bitsFilter' = tempBitsFilter
  /\ lastOp' = "dismiss"
  /\ UNCHANGED <<mounted, incoming, refreshing, tempVars, orders,
                 isLoading, searchVars, clockVars, inflight, cleanupVars,
                 historyVars,
                 dialogVars, formVars>>

\* onPress of the backdrop or of the close icon: setModalVisible(false)
DismissModal ==
  /\ mounted /\ isModalVisible
  /\ isModalVisible' = FALSE
  /\ lastOp' = "dismiss"
  /\ UNCHANGED <<mounted, incoming, refreshing, filterVars, tempVars, orders,
                 isLoading, searchVars, clockVars, inflight, cleanupVars,
                 historyVars,
                 dialogVars, formVars>>

\* an Apply that leaves out setDateFilter
ApplyFiltersWithoutDate ==
  /\ mounted /\ isModalVisible
  /\ Len(inflight) < MaxInFlight
  /\ statusFilter' = tempStatusFilter
  /\ bitsFilter' = tempBitsFilter
  /\ isModalVisible' = FALSE
  /\ isLoading' = TRUE
  /\ inflight' = Append(inflight,
                        loadOrders(tempBitsFilter, tempStatusFilter, "load"))
  /\ lastOp' = "apply"
  /\ lastApplied' = Staged
  /\ commitSource' = "apply"
  /\ UNCHANGED <<mounted, incoming, refreshing, dateFilter, tempVars, orders,
                 searchVars, clockVars, cleanupVars,
                 dialogVars, formVars>>

\* handleApplyFilters
ApplyFilters ==
  /\ mounted /\ isModalVisible
  /\ Len(inflight) < MaxInFlight
  /\ statusFilter' = tempStatusFilter
  /\ dateFilter' = tempDateFilter
  /\ bitsFilter' = tempBitsFilter
  /\ isModalVisible' = FALSE
  /\ isLoading' = TRUE
  /\ inflight' = Append(inflight,
                        loadOrders(tempBitsFilter, tempStatusFilter, "load"))
  /\ lastOp' = "apply"
  /\ lastApplied' = Staged
  /\ commitSource' = "apply"
  /\ UNCHANGED <<mounted, incoming, refreshing, tempVars, orders, searchVars,
                 clockVars, cleanupVars,
                 dialogVars, formVars>>

----------------------------------------------------------------------------
(* Loads *)

\* onRefresh, up to the await of loadOrders()
Refresh ==
  /\ mounted /\ ~isModalVisible
  /\ Len(inflight) < MaxInFlight
  /\ refreshing' = TRUE
  /\ isLoading' = TRUE
  /\ inflight' = Append(inflight, loadOrders(Undefined, Undefined, "refresh"))
  /\ lastOp' = "refresh"
  /\ UNCHANGED <<mounted, incoming, filterVars, tempVars, isModalVisible,
                 orders, searchVars, clockVars, cleanupVars, historyVars,
                 dialogVars, formVars>>

\* the effect on the route params, run when they change to p
IncomingParamsChange(p) ==
  /\ mounted /\ ~isModalVisible
  /\ p # incoming
  /\ incoming' = p
  /\ IF Truthy(p.bits) \/ Truthy(p.status) \/ Truthy(p.date)
     THEN /\ Len(inflight) < MaxInFlight
          /\ bitsFilter' = OrElse(p.bits, "all")
          /\ statusFilter' = OrElse(p.status, "all")
          /\ dateFilter' = OrElse(p.date, "all")
          /\ isLoading' = TRUE
          /\ inflight' = Append(inflight,
                                loadOrders(OrElse(p.bits, "all"),
                                           OrElse(p.status, "all"), "load"))
          /\ commitSource' = "params"
     ELSE UNCHANGED <<filterVars, isLoading, inflight, commitSource>>
  /\ lastOp' = "params"
  /\ UNCHANGED <<mounted, refreshing, tempVars, isModalVisible, orders,
                 searchVars, clockVars, cleanupVars, lastApplied,
                 dialogVars, formVars>>

\* a response whose orders are added to those of the cache
ReceiveOrdersMerges(i, payload) ==
  /\ i \in 1..Len(inflight)
  /\ inflight[i].cont \in {"load", "refresh", "cleanupReload"}
  /\ inflight' = RemoveAt(inflight, i)
  /\ IF mounted
     THEN /\ orders' = orders \o payload
          /\ isLoading' = FALSE
          /\ refreshing' = IF inflight[i].cont = "refresh" THEN FALSE
                           ELSE refreshing
     ELSE UNCHANGED <<orders, isLoading, refreshing>>
  /\ lastAlert' = IF inflight[i].cont = "cleanupReload" THEN "Success"
                  ELSE lastAlert
  /\ lastOp' = "loaded"
  /\ UNCHANGED <<mounted, incoming, filterVars, tempVars, isModalVisible,
                 searchVars, clockVars, cleanupVars, historyVars,
                 deleteDialog, cleanupLoad, formVars>>

\* loadOrders after its await: the response of request i carries payload
ReceiveOrders(i, payload) ==
  /\ i \in 1..Len(inflight)
  /\ inflight[i].cont \in {"load", "refresh", "cleanupReload"}
  /\ inflight' = RemoveAt(inflight, i)
  /\ IF mounted
     THEN /\ orders' = payload
          /\ isLoading' = FALSE
          /\ refreshing' = IF inflight[i].cont = "refresh" THEN FALSE
                           ELSE refreshing
     ELSE UNCHANGED <<orders, isLoading, refreshing>>
  /\ lastAlert' = IF inflight[i].cont = "cleanupReload" THEN "Success"
                  ELSE lastAlert
  /\ lastOp' = "loaded"
  /\ UNCHANGED <<mounted, incoming, filterVars, tempVars, isModalVisible,
                 searchVars, clockVars, cleanupVars, historyVars,
                 deleteDialog, cleanupLoad, formVars>>

\* a failed load whose flags are left as they are: a catch without finally
ReceiveErrorKeepsLoading(i) ==
  /\ i \in 1..Len(inflight)
  /\ inflight[i].cont \in {"load", "refresh", "cleanupReload"}
  /\ inflight' = RemoveAt(inflight, i)
  /\ lastAlert' = IF inflight[i].cont = "cleanupReload" THEN "Success"
                  ELSE "Failed to load orders"
  /\ lastOp' = "loadFailed"
  /\ UNCHANGED <<mounted, incoming, filterVars, tempVars, isModalVisible,
                 orders, isLoading, refreshing, searchVars, clockVars,
                 cleanupVars, historyVars, deleteDialog, cleanupLoad,
                 formVars>>

\* loadOrders after its await: request i fails, the catch and the finally
ReceiveError(i) ==
  /\ i \in 1..Len(inflight)
  /\ inflight[i].cont \in {"load", "refresh", "cleanupReload"}
  /\ inflight' = RemoveAt(inflight, i)
  /\ IF mounted
     THEN /\ isLoading' = FALSE
          /\ refreshing' = IF inflight[i].cont = "refresh" THEN FALSE
                           ELSE refreshing
     ELSE UNCHANGED <<isLoading, refreshing>>
  /\ lastAlert' = IF inflight[i].cont = "cleanupReload" THEN "Success"
                  ELSE "Failed to load orders"
  /\ lastOp' = "loadFailed"
  /\ UNCHANGED <<mounted, incoming, filterVars, tempVars, isModalVisible,
                 orders, searchVars, clockVars, cleanupVars, historyVars,
                 deleteDialog, cleanupLoad, formVars>>

----------------------------------------------------------------------------
(* Cleanup of old completed orders *)

\* a cleanup that fetches with the committed filters, as loadOrders does
CleanupPressFiltered ==
  /\ mounted /\ ~isModalVisible
  /\ Len(inflight) < MaxInFlight
  /\ inflight' = Append(inflight, loadOrders(Undefined, Undefined, "cleanup"))
  /\ cleanupLoad' = LoadClosure
  /\ allOrders' = <<>>
  /\ lastOp' = "cleanupPress"
  /\ UNCHANGED <<mounted, incoming, refreshing, filterVars, tempVars,
                 isModalVisible, orders, isLoading, searchVars, clockVars,
                 oldOrders, historyVars, deleteDialog, lastAlert, formVars>>

\* handleCleanupOldOrders, up to the await of api.orders.getAll(); the
\* callback holds the loadOrders of the render it was created in
CleanupPress ==
  /\ mounted /\ ~isModalVisible
  /\ Len(inflight) < MaxInFlight
  /\ inflight' = Append(inflight,
                        getAll(Undefined, Undefined, Undefined, "cleanup"))
  /\ cleanupLoad' = LoadClosure
  /\ allOrders' = <<>>
  /\ lastOp' = "cleanupPress"
  /\ UNCHANGED <<mounted, incoming, refreshing, filterVars, tempVars,
                 isModalVisible, orders, isLoading, searchVars, clockVars,
                 oldOrders, historyVars, deleteDialog, lastAlert, formVars>>

\* a cleanup that deletes what it finds without asking
CleanupFetchedDeletes(i, payload) ==
  /\ i \in 1..Len(inflight)
  /\ inflight[i].cont = "cleanup"
  /\ inflight' =
       Append(RemoveAt(inflight, i),
              deleteOldCompleted(
                OrderIds(getOldCompletedOrders(payload, now, tz)))
              @@ [cont |-> "cleanupDelete", load |-> cleanupLoad,
                  count |-> Len(getOldCompletedOrders(payload, now, tz))])
  /\ allOrders' = payload
  /\ oldOrders' = <<>>
  /\ lastOp' = "cleanupFetched"
  /\ UNCHANGED <<mounted, incoming, refreshing, filterVars, tempVars,
                 isModalVisible, orders, isLoading, searchVars, clockVars,
                 historyVars, dialogVars, formVars>>

\* handleCleanupOldOrders after its await: request i answers with payload;
\* a non-empty oldOrders is the list the confirmation dialog was opened for
CleanupFetched(i, payload) ==
  /\ i \in 1..Len(inflight)
  /\ inflight[i].cont = "cleanup"
  /\ inflight' = RemoveAt(inflight, i)
  /\ allOrders' = payload
  /\ oldOrders' = getOldCompletedOrders(payload, now, tz)
  /\ lastAlert' = IF getOldCompletedOrders(payload, now, tz) = <<>>
                  THEN "No Old Orders" ELSE lastAlert
  /\ lastOp' = "cleanupFetched"
  /\ UNCHANGED <<mounted, incoming, refreshing, filterVars, tempVars,
                 isModalVisible, orders, isLoading, searchVars, clockVars,
                 historyVars, deleteDialog, cleanupLoad, formVars>>

\* handleCleanupOldOrders after its await: request i fails, the outer catch
CleanupFetchFailed(i) ==
  /\ i \in 1..Len(inflight)
  /\ inflight[i].cont = "cleanup"
  /\ inflight' = RemoveAt(inflight, i)
  /\ lastAlert' = "Failed to process cleanup"
  /\ lastOp' = "cleanupFailed"
  /\ UNCHANGED <<mounted, incoming, refreshing, filterVars, tempVars,
                 isModalVisible, orders, isLoading, searchVars, clockVars,
                 cleanupVars, historyVars, deleteDialog, cleanupLoad,
                 formVars>>

\* the Cancel button of the confirmation dialog
CleanupCancel ==
  /\ oldOrders # <<>>
  /\ oldOrders' = <<>>
  /\ allOrders' = <<>>
  /\ lastOp' = "cleanupCancel"
  /\ UNCHANGED <<mounted, incoming, refreshing, filterVars, tempVars,
                 isModalVisible, orders, isLoading, searchVars, clockVars,
                 inflight, historyVars, dialogVars, formVars>>

\* a Delete button that sends one delete request per listed order
CleanupConfirmPerOrder ==
  /\ oldOrders # <<>>
  /\ Len(inflight) + Len(oldOrders) <= MaxInFlight + 1
  /\ inflight' =
       inflight \o
       [j \in 1..Len(oldOrders) |->
          deleteOldCompleted(<<oldOrders[j].id>>)
          @@ [cont |-> "cleanupDelete", load |-> cleanupLoad,
              count |-> Len(oldOrders)]]
  /\ oldOrders' = <<>>
  /\ allOrders' = <<>>
  /\ lastOp' = "cleanupConfirm"
  /\ UNCHANGED <<mounted, incoming, refreshing, filterVars, tempVars,
                 isModalVisible, orders, isLoading, searchVars, clockVars,
                 historyVars, dialogVars, formVars>>

\* the Delete button of the confirmation dialog, up to the await of
\* api.orders.deleteOldCompleted(orderIds)
CleanupConfirm ==
  /\ oldOrders # <<>>
  /\ Len(inflight) < MaxInFlight
  /\ inflight' =
       Append(inflight,
              deleteOldCompleted(OrderIds(oldOrders))
              @@ [cont |-> "cleanupDelete", load |-> cleanupLoad,
                  count |-> Len(oldOrders)])
  /\ oldOrders' = <<>>
  /\ allOrders' = <<>>
  /\ lastOp' = "cleanupConfirm"
  /\ UNCHANGED <<mounted, incoming, refreshing, filterVars, tempVars,
                 isModalVisible, orders, isLoading, searchVars, clockVars,
                 historyVars, dialogVars, formVars>>

\* the Delete button after its await: batch request i has succeeded and
\* loadOrders() is called, up to its await
BatchDeleted(i) ==
  /\ i \in 1..Len(inflight)
  /\ inflight[i].cont = "cleanupDelete"
  /\ inflight' =
       Append(RemoveAt(inflight, i),
              loadOrdersIn(inflight[i].load, Undefined, Undefined,
                           "cleanupReload"))
  /\ isLoading' = IF mounted THEN TRUE ELSE isLoading
  /\ lastOp' = "cleanupDeleted"
  /\ UNCHANGED <<mounted, incoming, refreshing, filterVars, tempVars,
                 isModalVisible, orders, searchVars, clockVars, cleanupVars,
                 historyVars, dialogVars, formVars>>

\* the Delete button after its await: batch request i fails, the catch
BatchDeleteFailed(i) ==
  /\ i \in 1..Len(inflight)
  /\ inflight[i].cont = "cleanupDelete"
  /\ inflight' = RemoveAt(inflight, i)
  /\ lastAlert' = "Failed to delete orders"
  /\ lastOp' = "cleanupDeleteFailed"
  /\ UNCHANGED <<mounted, incoming, refreshing, filterVars, tempVars,
                 isModalVisible, orders, isLoading, searchVars, clockVars,
                 cleanupVars, historyVars, deleteDialog, cleanupLoad,
                 formVars>>

----------------------------------------------------------------------------
(* Deletion of one order *)

\* handleDeletePress(order) of a rendered card: the 'Delete Order' dialog
DeletePress(o) ==
  /\ mounted /\ ~isModalVisible /\ ~isLoading
  /\ deleteDialog = <<>>
  /\ o \in {filteredOrders[j] : j \in 1..Len(filteredOrders)}
  /\ deleteDialog' = <<[order |-> o.id, load |-> LoadClosure]>>
  /\ lastOp' = "deletePress"
  /\ UNCHANGED <<mounted, incoming, refreshing, filterVars, tempVars,
                 isModalVisible, orders, isLoading, searchVars, clockVars,
                 inflight, cleanupVars, historyVars, cleanupLoad, lastAlert,
                 formVars>>

\* the Cancel button of the 'Delete Order' dialog
DeleteCancel ==
  /\ deleteDialog # <<>>
  /\ deleteDialog' = <<>>
  /\ lastOp' = "deleteCancel"
  /\ UNCHANGED <<mounted, incoming, refreshing, filterVars, tempVars,
                 isModalVisible, orders, isLoading, searchVars, clockVars,
                 inflight, cleanupVars, historyVars, cleanupLoad, lastAlert,
                 formVars>>

\* the Delete button of the dialog, up to the await of api.orders.delete
DeleteConfirm ==
  /\ deleteDialog # <<>>
  /\ Len(inflight) < MaxInFlight
  /\ inflight' = Append(inflight,
                        delete(deleteDialog[1].order)
                        @@ [cont |-> "delete", load |-> deleteDialog[1].load])
  /\ deleteDialog' = <<>>
  /\ lastOp' = "deleteConfirm"
  /\ UNCHANGED <<mounted, incoming, refreshing, filterVars, tempVars,
                 isModalVisible, orders, isLoading, searchVars, clockVars,
                 cleanupVars, historyVars, cleanupLoad, lastAlert, formVars>>

\* the Delete button after its await: delete request i has succeeded and
\* loadOrders() is called, up to its await
DeleteDone(i) ==
  /\ i \in 1..Len(inflight)
  /\ inflight[i].cont = "delete"
  /\ inflight' =
       Append(RemoveAt(inflight, i),
              loadOrdersIn(inflight[i].load, Undefined, Undefined, "load"))
  /\ isLoading' = IF mounted THEN TRUE ELSE isLoading
  /\ lastOp' = "deleted"
  /\ UNCHANGED <<mounted, incoming, refreshing, filterVars, tempVars,
                 isModalVisible, orders, searchVars, clockVars, cleanupVars,
                 historyVars, dialogVars, formVars>>

\* the Delete button after its await: delete request i fails, the catch
DeleteFailed(i) ==
  /\ i \in 1..Len(inflight)
  /\ inflight[i].cont = "delete"
  /\ inflight' = RemoveAt(inflight, i)
  /\ lastAlert' = "Failed to delete order"
  /\ lastOp' = "deleteFailed"
  /\ UNCHANGED <<mounted, incoming, refreshing, filterVars, tempVars,
                 isModalVisible, orders, isLoading, searchVars, clockVars,
                 cleanupVars, historyVars, deleteDialog, cleanupLoad,
                 formVars>>

----------------------------------------------------------------------------
(* Search text and its debounce *)

\* handleSearchChange(q) and the debounce effect of the render it causes
ChangeText(q) ==
  /\ mounted /\ ~isModalVisible
  /\ q # searchQuery
  /\ searchQuery' = q
  /\ timers' = DebounceEffect(timers, debounceTimeoutRef, q)
  /\ debounceTimeoutRef' = FreshTimerId
  /\ burstFires' = IF sinceKey >= DebounceMs THEN 0 ELSE burstFires
  /\ burstKeys' = IF sinceKey >= DebounceMs THEN 1
                  ELSE IF burstKeys < 2 THEN burstKeys + 1 ELSE 2
  /\ sinceKey' = 0
  /\ lastOp' = "type"
  /\ UNCHANGED <<mounted, incoming, refreshing, debouncedSearchQuery,
                 filterVars, tempVars, isModalVisible, orders, isLoading,
                 clockVars, inflight, cleanupVars, historyVars,
                 dialogVars, formVars>>

\* TickMs milliseconds pass
Tick ==
  /\ timers' = {[id |-> t.id,
                 remaining |-> IF t.remaining > TickMs
                               THEN t.remaining - TickMs ELSE 0,
                 value |-> t.value] : t \in timers}
  /\ sinceKey' = IF sinceKey + TickMs < DebounceMs THEN sinceKey + TickMs
                 ELSE DebounceMs
  /\ lastOp' = "tick"
  /\ UNCHANGED <<mounted, incoming, refreshing, searchQuery,
                 debouncedSearchQuery, filterVars, tempVars, isModalVisible,
                 orders, isLoading, debounceTimeoutRef, burstFires, burstKeys,
                 clockVars, inflight, cleanupVars, historyVars,
                 dialogVars, formVars>>

\* the callback of an expired timer: setDebouncedSearchQuery(searchQuery)
TimerFire(t) ==
  /\ t \in timers
  /\ t.remaining = 0
  /\ timers' = timers \ {t}
  /\ debouncedSearchQuery' = IF mounted THEN t.value ELSE debouncedSearchQuery
  /\ burstFires' = burstFires + 1
  /\ lastOp' = "timer"
  /\ UNCHANGED <<mounted, incoming, refreshing, searchQuery, filterVars,
                 tempVars, isModalVisible, orders, isLoading,
                 debounceTimeoutRef, sinceKey, burstKeys, clockVars, inflight,
                 cleanupVars, historyVars,
                 dialogVars, formVars>>

\* an unmount without the cleanups of the timer effects
UnmountKeepsTimer ==
  /\ mounted
  /\ mounted' = FALSE
  /\ lastOp' = "unmount"
  /\ UNCHANGED <<incoming, refreshing, searchQuery, debouncedSearchQuery,
                 filterVars, tempVars, isModalVisible, orders, isLoading,
                 debounceTimeoutRef, timers, sinceKey, burstFires, burstKeys,
                 clockVars, inflight, cleanupVars, historyVars,
                 dialogVars, formVars>>

\* the screen unmounts: the cleanups of the two timer effects run
Unmount ==
  /\ mounted
  /\ mounted' = FALSE
  /\ timers' = IF debounceTimeoutRef # 0
               THEN clearTimeout(timers, debounceTimeoutRef) ELSE timers
  /\ lastOp' = "unmount"
  /\ UNCHANGED <<incoming, refreshing, searchQuery, debouncedSearchQuery,
                 filterVars, tempVars, isModalVisible, orders, isLoading,
                 debounceTimeoutRef, sinceKey, burstFires, burstKeys,
                 clockVars, inflight, cleanupVars, historyVars,
                 dialogVars, formVars>>

----------------------------------------------------------------------------
(* The edit-order form *)

\* orderAPI.update(id, orderData)
update(id, orderData) ==
  [api |-> "orders.update", id |-> id, body |-> orderData]

\* a total that counts the items instead of their quantities
reduceLength(items, total) == total + Len(items)

\* orderItems.reduce((total, item) => total + item.quantity, 0)
RECURSIVE reduce(_, _)
reduce(items, total) ==
  IF items = <<>> THEN total
  ELSE reduce(Tail(items), total + Head(items).quantity)

\* prevItems.findIndex(item => item.productId === id && item.unit === unit)
\* counted from 1, with 0 for the -1 of an absent pair
findIndex(prevItems, productId, unit) ==
  IF \E j \in 1..Len(prevItems) :
       prevItems[j].productId = productId /\ prevItems[j].unit = unit
  THEN CHOOSE j \in 1..Len(prevItems) :
         /\ prevItems[j].productId = productId /\ prevItems[j].unit = unit
         /\ \A k \in 1..(j - 1) :
              ~(prevItems[k].productId = productId /\ prevItems[k].unit = unit)
  ELSE 0

\* an add that appends without looking for the pair
handleAddToOrderAppends(prevItems, productId, unit, quantity, productNotes) ==
  Append(prevItems, [productId |-> productId, unit |-> unit,
                     quantity |-> quantity, productNotes |-> productNotes])

\* the updater of handleAddToOrder; the notes arrive as productNotes || ''
handleAddToOrder(prevItems, productId, unit, quantity, productNotes) ==
  LET existingItemIndex == findIndex(prevItems, productId, unit)
  IN  IF existingItemIndex >= 1
      THEN [prevItems EXCEPT ![existingItemIndex].quantity = quantity,
                             ![existingItemIndex].productNotes = productNotes]
      ELSE Append(prevItems, [productId |-> productId, unit |-> unit,
                              quantity |-> quantity,
                              productNotes |-> productNotes])

\* Math.max(0, n)
Max0(n) == IF n > 0 THEN n ELSE 0

\* the updater of handleUpdateQuantity
handleUpdateQuantity(prevItems, productId, unit, newQuantity) ==
  LET updatedItems ==
        [j \in 1..Len(prevItems) |->
           IF prevItems[j].productId = productId /\ prevItems[j].unit = unit
           THEN [prevItems[j] EXCEPT !.quantity = Max0(newQuantity)]
           ELSE prevItems[j]]
  IN  SelectSeq(updatedItems, LAMBDA item : item.quantity > 0)

\* the updater of handleUpdateNotes
handleUpdateNotes(prevItems, productId, unit, productNotes) ==
  [j \in 1..Len(prevItems) |->
     IF prevItems[j].productId = productId /\ prevItems[j].unit = unit
     THEN [prevItems[j] EXCEPT !.productNotes = productNotes]
     ELSE prevItems[j]]

\* the updater of handleRemoveItem
handleRemoveItem(prevItems, productId, unit) ==
  SelectSeq(prevItems,
            LAMBDA item : ~(item.productId = productId /\ item.unit = unit))

\* getTotalItems(): the total the screen shows
getTotalItems == reduce(orderItems, 0)

\* selectedDate.toLocaleDateString('en-GB')
formattedDate ==
  IF selectedDate.valid THEN FormatDay(LocalDay(selectedDate.t, tz))
  ELSE Text

\* the edit-order screen right after its mount effects, opened for order o
EditOrderOpen(o) ==
  /\ form = "edit-order" /\ route = "" /\ formDialog = ""
  /\ order = <<[id |-> o.id, status |-> o.status]>>
  /\ orderItems = o.items
  /\ selectedDate = ParseForCleanup(o.date, tz)
  /\ isSaving = FALSE /\ isCreatingOrder = FALSE /\ isCreating = FALSE
  /\ productName = <<>> /\ selectedBrand = "" /\ newBrandName = <<>>
  /\ brands = <<>>
  /\ products = <<>> /\ itemsLoading = FALSE /\ isCleaningUp = FALSE
  /\ retailerName = <<>> /\ phoneNo = <<>> /\ selectedBit = ""
  /\ storedOrder = <<>>

\* handleAddSelected of the product modal: one selection with quantity > 0
AddToOrder(productId, unit, quantity, productNotes) ==
  /\ form = "edit-order" /\ formDialog = ""
  /\ quantity > 0
  /\ orderItems' = handleAddToOrder(orderItems, productId, unit, quantity,
                                    productNotes)
  /\ lastOp' = "add"
  /\ UNCHANGED <<ordersVars, inflight, lastAlert, form, route, formDialog,
                 editVars, isCreatingOrder, isCreating, productVars,
                 retailerVars>>

\* the quantity controls of an item card
UpdateQuantity(productId, unit, newQuantity) ==
  /\ form = "edit-order" /\ formDialog = ""
  /\ \E j \in 1..Len(orderItems) :
       orderItems[j].productId = productId /\ orderItems[j].unit = unit
  /\ orderItems' = handleUpdateQuantity(orderItems, productId, unit,
                                        newQuantity)
  /\ lastOp' = "item"
  /\ UNCHANGED <<ordersVars, inflight, lastAlert, form, route, formDialog,
                 editVars, isCreatingOrder, isCreating, productVars,
                 retailerVars>>

\* the notes input of an item card
UpdateNotes(productId, unit, productNotes) ==
  /\ form = "edit-order" /\ formDialog = ""
  /\ \E j \in 1..Len(orderItems) :
       orderItems[j].productId = productId /\ orderItems[j].unit = unit
  /\ orderItems' = handleUpdateNotes(orderItems, productId, unit,
                                     productNotes)
  /\ lastOp' = "item"
  /\ UNCHANGED <<ordersVars, inflight, lastAlert, form, route, formDialog,
                 editVars, isCreatingOrder, isCreating, productVars,
                 retailerVars>>

\* the trash button of an item card
RemoveItem(productId, unit) ==
  /\ form = "edit-order" /\ formDialog = ""
  /\ \E j \in 1..Len(orderItems) :
       orderItems[j].productId = productId /\ orderItems[j].unit = unit
  /\ orderItems' = handleRemoveItem(orderItems, productId, unit)
  /\ lastOp' = "item"
  /\ UNCHANGED <<ordersVars, inflight, lastAlert, form, route, formDialog,
                 editVars, isCreatingOrder, isCreating, productVars,
                 retailerVars>>

\* the Today button of the date picker: setSelectedDate(new Date())
DateToday ==
  /\ form = "edit-order" /\ formDialog = ""
  /\ selectedDate' = MkDate(now)
  /\ lastOp' = "item"
  /\ UNCHANGED <<ordersVars, inflight, lastAlert, form, route, formDialog,
                 orderItems, order, isSaving, isCreatingOrder, isCreating,
                 productVars, retailerVars>>

\* a Save that sends the status the order was loaded with
SaveOrderSendsStatus ==
  /\ form = "edit-order" /\ formDialog = "" /\ ~isSaving
  /\ order # <<>>
  /\ orderItems # <<>>
  /\ Len(inflight) < MaxInFlight
  /\ isSaving' = TRUE
  /\ inflight' =
       Append(inflight,
              update(order[1].id,
                     [items |-> orderItems,
                      totalItems |-> reduce(orderItems, 0),
                      status |-> order[1].status,
                      date |-> formattedDate])
              @@ [cont |-> "save"])
  /\ lastOp' = "save"
  /\ UNCHANGED <<ordersVars, lastAlert, form, route, formDialog, orderItems,
                 order, selectedDate, isCreatingOrder, isCreating,
                 productVars, retailerVars>>

\* handleSaveOrder, up to the await of api.orders.update; the button is
\* disabled while isSaving
SaveOrder ==
  /\ form = "edit-order" /\ formDialog = "" /\ ~isSaving
  /\ order # <<>>
  /\ IF orderItems = <<>>
     THEN /\ lastAlert' = "Please add items to your order before saving."
          /\ lastOp' = "saveRejected"
          /\ UNCHANGED <<isSaving, inflight>>
     ELSE /\ Len(inflight) < MaxInFlight
          /\ isSaving' = TRUE
          /\ inflight' =
               Append(inflight,
                      update(order[1].id,
                             [items |-> orderItems,
                              totalItems |-> reduce(orderItems, 0),
                              date |-> formattedDate])
                      @@ [cont |-> "save"])
          /\ lastOp' = "save"
          /\ UNCHANGED lastAlert
  /\ UNCHANGED <<ordersVars, form, route, formDialog, orderItems, order,
                 selectedDate, isCreatingOrder, isCreating, productVars,
                 retailerVars>>

\* handleSaveOrder after its await: the update has succeeded
SaveDone(i) ==
  /\ i \in 1..Len(inflight)
  /\ inflight[i].cont = "save"
  /\ inflight' = RemoveAt(inflight, i)
  /\ formDialog' = "Order Updated!"
  /\ UNCHANGED lastAlert
  /\ isSaving' = FALSE
  /\ lastOp' = "saved"
  /\ UNCHANGED <<ordersVars, form, route, orderItems, order, selectedDate,
                 isCreatingOrder, isCreating, productVars, retailerVars>>

\* a failed Save whose flag is never cleared
SaveFailedKeepsSaving(i) ==
  /\ i \in 1..Len(inflight)
  /\ inflight[i].cont = "save"
  /\ inflight' = RemoveAt(inflight, i)
  /\ lastAlert' = "Failed to update order"
  /\ UNCHANGED formDialog
  /\ isSaving' = isSaving
  /\ lastOp' = "saveFailed"
  /\ UNCHANGED <<ordersVars, form, route, orderItems, order, selectedDate,
                 isCreatingOrder, isCreating, productVars, retailerVars>>

\* handleSaveOrder after its await: the update fails, catch and finally
SaveFailed(i) ==
  /\ i \in 1..Len(inflight)
  /\ inflight[i].cont = "save"
  /\ inflight' = RemoveAt(inflight, i)
  /\ lastAlert' = "Failed to update order"
  /\ UNCHANGED formDialog
  /\ isSaving' = FALSE
  /\ lastOp' = "saveFailed"
  /\ UNCHANGED <<ordersVars, form, route, orderItems, order, selectedDate,
                 isCreatingOrder, isCreating, productVars, retailerVars>>

\* handleMarkAsCompleted: the Complete button, rendered for a Pending order
\* and disabled while isSaving
CompletePress ==
  /\ form = "edit-order" /\ formDialog = "" /\ ~isSaving
  /\ order # <<>>
  /\ order[1].status = "Pending"
  /\ formDialog' = "Mark Order as Completed"
  /\ lastOp' = "completePress"
  /\ UNCHANGED <<ordersVars, inflight, lastAlert, form, route, orderItems,
                 editVars, isCreatingOrder, isCreating, productVars,
                 retailerVars>>

\* the Cancel button of the 'Mark Order as Completed' dialog
CompleteCancel ==
  /\ formDialog = "Mark Order as Completed"
  /\ formDialog' = ""
  /\ lastOp' = "completeCancel"
  /\ UNCHANGED <<ordersVars, inflight, lastAlert, form, route, orderItems,
                 editVars, isCreatingOrder, isCreating, productVars,
                 retailerVars>>

\* the Complete button of the dialog, up to the await of api.orders.update
CompleteConfirm ==
  /\ formDialog = "Mark Order as Completed"
  /\ Len(inflight) < MaxInFlight
  /\ formDialog' = ""
  /\ isSaving' = TRUE
  /\ inflight' =
       Append(inflight,
              update(order[1].id,
                     [items |-> orderItems,
                      totalItems |-> reduce(orderItems, 0),
                      status |-> "Completed",
                      date |-> formattedDate])
              @@ [cont |-> "complete"])
  /\ lastOp' = "complete"
  /\ UNCHANGED <<ordersVars, lastAlert, form, route, orderItems, order,
                 selectedDate, isCreatingOrder, isCreating, productVars,
                 retailerVars>>

\* the Complete button after its await: the update has succeeded
CompleteDone(i) ==
  /\ i \in 1..Len(inflight)
  /\ inflight[i].cont = "complete"
  /\ inflight' = RemoveAt(inflight, i)
  /\ formDialog' = "Order Completed!"
  /\ UNCHANGED lastAlert
  /\ isSaving' = FALSE
  /\ lastOp' = "completed"
  /\ UNCHANGED <<ordersVars, form, route, orderItems, order, selectedDate,
                 isCreatingOrder, isCreating, productVars, retailerVars>>

\* the Complete button after its await: the update fails, catch and finally
CompleteFailed(i) ==
  /\ i \in 1..Len(inflight)
  /\ inflight[i].cont = "complete"
  /\ inflight' = RemoveAt(inflight, i)
  /\ lastAlert' = "Failed to complete order"
  /\ UNCHANGED formDialog
  /\ isSaving' = FALSE
  /\ lastOp' = "completeFailed"
  /\ UNCHANGED <<ordersVars, form, route, orderItems, order, selectedDate,
                 isCreatingOrder, isCreating, productVars, retailerVars>>

\* the OK button of 'Order Updated!' or 'Order Completed!':
\* router.push to the Orders tab
EditSuccessOk ==
  /\ formDialog \in {"Order Updated!", "Order Completed!"}
  /\ formDialog' = ""
  /\ route' = "/(tabs)/orders"
  /\ form' = "none"
  /\ lastOp' = "successOk"
  /\ UNCHANGED <<ordersVars, inflight, lastAlert, orderItems, editVars,
                 isCreatingOrder, isCreating, productVars, retailerVars>>

----------------------------------------------------------------------------
(* The new-order form and its summary *)

\* orderAPI.create(orderData)
create(orderData) == [api |-> "orders.create", body |-> orderData]

\* the updater of handleAddToOrder of the new-order screen, on selectedItems
handleAddToOrderNew(prevItems, productId, unit, quantity, productNotes) ==
  LET existingItemIndex == findIndex(prevItems, productId, unit)
  IN  IF existingItemIndex >= 1
      THEN [prevItems EXCEPT ![existingItemIndex].quantity = quantity,
                             ![existingItemIndex].productNotes = productNotes]
      ELSE Append(prevItems, [productId |-> productId, unit |-> unit,
                              quantity |-> quantity,
                              productNotes |-> productNotes])

\* the new-order screen after its mount effects; items are the selected
\* items restored from the route params, <<>> without them
NewOrderOpen(items) ==
  /\ form = "new-order" /\ route = "" /\ formDialog = ""
  /\ order = <<>>
  /\ orderItems = items
  /\ selectedDate = MkDate(now)
  /\ isSaving = FALSE /\ isCreatingOrder = FALSE /\ isCreating = FALSE
  /\ productName = <<>> /\ selectedBrand = "" /\ newBrandName = <<>>
  /\ brands = <<>>
  /\ products = <<>> /\ itemsLoading = FALSE /\ isCleaningUp = FALSE
  /\ retailerName = <<>> /\ phoneNo = <<>> /\ selectedBit = ""
  /\ storedOrder = <<>>

\* the order-summary screen opened with items as its orderItems param
OrderSummaryOpen(items) ==
  /\ form = "order-summary" /\ route = "" /\ formDialog = ""
  /\ order = <<>>
  /\ orderItems = items
  /\ selectedDate = MkDate(now)
  /\ isSaving = FALSE /\ isCreatingOrder = FALSE /\ isCreating = FALSE
  /\ productName = <<>> /\ selectedBrand = "" /\ newBrandName = <<>>
  /\ brands = <<>>
  /\ products = <<>> /\ itemsLoading = FALSE /\ isCleaningUp = FALSE
  /\ retailerName = <<>> /\ phoneNo = <<>> /\ selectedBit = ""
  /\ storedOrder = <<>>

\* handleAddSelected of the new-order product modal: one selection
NewAddToOrder(productId, unit, quantity, productNotes) ==
  /\ form = "new-order"
  /\ quantity > 0
  /\ orderItems' = handleAddToOrderNew(orderItems, productId, unit, quantity,
                                       productNotes)
  /\ lastOp' = "add"
  /\ UNCHANGED <<ordersVars, inflight, lastAlert, form, route, formDialog,
                 editVars, isCreatingOrder, isCreating, productVars,
                 retailerVars>>

\* handleNavigateToSummary: the bar shown when items are selected
NavigateToSummary ==
  /\ form = "new-order"
  /\ Len(orderItems) > 0
  /\ form' = "order-summary"
  /\ route' = "/orders/order-summary"
  /\ lastOp' = "summary"
  /\ UNCHANGED <<ordersVars, inflight, lastAlert, formDialog, orderItems,
                 editVars, isCreatingOrder, isCreating, productVars,
                 retailerVars>>

\* handleConfirmOrder, up to the await of api.orders.create; the button is
\* disabled while isCreatingOrder
ConfirmOrder ==
  /\ form = "order-summary" /\ formDialog = "" /\ ~isCreatingOrder
  /\ IF Len(orderItems) = 0
     THEN /\ lastAlert' = "Please add items to your order before confirming."
          /\ lastOp' = "confirmRejected"
          /\ UNCHANGED <<isCreatingOrder, inflight>>
     ELSE /\ Len(inflight) < MaxInFlight
          /\ isCreatingOrder' = TRUE
          /\ inflight' =
               Append(inflight,
                      create([counterName |-> "Retailer", bit |-> "Turori",
                              totalItems |-> reduce(orderItems, 0),
                              totalAmount |-> 0,
                              items |-> orderItems])
                      @@ [cont |-> "create"])
          /\ lastOp' = "confirm"
          /\ UNCHANGED lastAlert
  /\ UNCHANGED <<ordersVars, form, route, formDialog, orderItems, editVars,
                 isCreating, productVars, retailerVars>>

\* handleConfirmOrder after its await: the create has succeeded
ConfirmDone(i) ==
  /\ i \in 1..Len(inflight)
  /\ inflight[i].cont = "create"
  /\ inflight' = RemoveAt(inflight, i)
  /\ formDialog' = "Order Confirmed!"
  /\ isCreatingOrder' = FALSE
  /\ lastOp' = "confirmed"
  /\ UNCHANGED <<ordersVars, lastAlert, form, route, orderItems, editVars,
                 isCreating, productVars, retailerVars>>

\* handleConfirmOrder after its await: the create fails, catch and finally
ConfirmFailed(i) ==
  /\ i \in 1..Len(inflight)
  /\ inflight[i].cont = "create"
  /\ inflight' = RemoveAt(inflight, i)
  /\ lastAlert' = "Failed to create order"
  /\ isCreatingOrder' = FALSE
  /\ lastOp' = "confirmFailed"
  /\ UNCHANGED <<ordersVars, form, route, formDialog, orderItems, editVars,
                 isCreating, productVars, retailerVars>>

\* the OK button of 'Order Confirmed!': router.push to the Orders tab
SummarySuccessOk ==
  /\ formDialog = "Order Confirmed!"
  /\ formDialog' = ""
  /\ route' = "/(tabs)/orders"
  /\ form' = "none"
  /\ lastOp' = "successOk"
  /\ UNCHANGED <<ordersVars, inflight, lastAlert, orderItems, editVars,
                 isCreatingOrder, isCreating, productVars, retailerVars>>

----------------------------------------------------------------------------
(* The new-item and new-retailer forms *)

\* brandAPI.create(brandData)
createBrand(name) == [api |-> "brands.create", body |-> [name |-> name]]

\* productAPI.create(productData)
createProduct(productData) == [api |-> "products.create", body |-> productData]

\* retailerAPI.create(retailerData)
createRetailer(retailerData) ==
  [api |-> "retailers.create", body |-> retailerData]

\* least number of characters the phone pattern asks for after the sign
MinPhoneLen == 10

\* characters of the class [0-9\s\-\(\)]
PhoneChars ==
  {"0", "1", "2", "3", "4", "5", "6", "7", "8", "9", " ", "\t", "-", "(", ")"}

\* /^[\+]?[0-9\s\-\(\)]{10,}$/.test(phoneNo)
phoneRegexTest(phone) ==
  LET body == IF phone # <<>> /\ Head(phone) = "+" THEN Tail(phone) ELSE phone
  IN  /\ Len(body) >= MinPhoneLen
      /\ \A i \in 1..Len(body) : body[i] \in PhoneChars

\* brands.find(brand => brand.name === selectedBrand), <<>> when absent
findBrand(name) == SelectSeq(brands, LAMBDA brand : brand.name = name)

\* the new-item screen with its inputs filled in and the brands bs loaded
NewItemOpen(name, brand, newBrand, bs) ==
  /\ form = "new-item" /\ route = "" /\ formDialog = ""
  /\ order = <<>> /\ orderItems = <<>>
  /\ selectedDate = [valid |-> FALSE, t |-> 0]
  /\ isSaving = FALSE /\ isCreatingOrder = FALSE /\ isCreating = FALSE
  /\ productName = name /\ selectedBrand = brand /\ newBrandName = newBrand
  /\ brands = bs
  /\ products = <<>> /\ itemsLoading = FALSE /\ isCleaningUp = FALSE
  /\ retailerName = <<>> /\ phoneNo = <<>> /\ selectedBit = ""
  /\ storedOrder = <<>>

\* the new-retailer screen with its inputs filled in
NewRetailerOpen(name, phone, bit) ==
  /\ form = "new-retailer" /\ route = "" /\ formDialog = ""
  /\ order = <<>> /\ orderItems = <<>>
  /\ selectedDate = [valid |-> FALSE, t |-> 0]
  /\ isSaving = FALSE /\ isCreatingOrder = FALSE /\ isCreating = FALSE
  /\ productName = <<>> /\ selectedBrand = "" /\ newBrandName = <<>>
  /\ brands = <<>>
  /\ products = <<>> /\ itemsLoading = FALSE /\ isCleaningUp = FALSE
  /\ retailerName = name /\ phoneNo = phone /\ selectedBit = bit
  /\ storedOrder = <<>>

\* handleCreateProduct, up to its first await; the button is disabled while
\* isCreating
CreateProduct ==
  /\ form = "new-item" /\ formDialog = "" /\ ~isCreating
  /\ IF trim(productName) = <<>>
     THEN /\ lastAlert' = "Please enter product name"
          /\ UNCHANGED <<isCreating, inflight>>
     ELSE IF selectedBrand = "" /\ trim(newBrandName) = <<>>
     THEN /\ lastAlert' = "Please select an existing brand or enter a new brand name"
          /\ UNCHANGED <<isCreating, inflight>>
     ELSE IF selectedBrand # "" /\ trim(newBrandName) # <<>>
     THEN /\ lastAlert' = "Please select either an existing brand OR enter a new brand name, not both"
          /\ UNCHANGED <<isCreating, inflight>>
     ELSE IF trim(newBrandName) # <<>>
     THEN /\ Len(inflight) < MaxInFlight
          /\ isCreating' = TRUE
          /\ inflight' = Append(inflight,
                                createBrand(trim(newBrandName))
                                @@ [cont |-> "brand"])
          /\ UNCHANGED lastAlert
     ELSE IF findBrand(selectedBrand) = <<>>
     THEN /\ lastAlert' = "Selected brand not found"
          /\ UNCHANGED <<isCreating, inflight>>
     ELSE /\ Len(inflight) < MaxInFlight
          /\ isCreating' = TRUE
          /\ inflight' =
               Append(inflight,
                      createProduct(
                        [name |-> trim(productName),
                         brandId |-> findBrand(selectedBrand)[1].id,
                         brandName |-> findBrand(selectedBrand)[1].name])
                      @@ [cont |-> "product"])
          /\ UNCHANGED lastAlert
  /\ lastOp' = "createProduct"
  /\ UNCHANGED <<ordersVars, form, route, formDialog, orderItems, editVars,
                 isCreatingOrder, productVars, retailerVars>>

\* handleCreateProduct after api.brands.create: the brand newBrand is
\* created, up to the await of api.products.create
BrandCreated(i, newBrand) ==
  /\ i \in 1..Len(inflight)
  /\ inflight[i].cont = "brand"
  /\ inflight' =
       Append(RemoveAt(inflight, i),
              createProduct([name |-> trim(productName),
                             brandId |-> newBrand.id,
                             brandName |-> newBrand.name])
              @@ [cont |-> "product"])
  /\ lastOp' = "brandCreated"
  /\ UNCHANGED <<ordersVars, lastAlert, formVars>>

\* a failed brand create after which the product is created all the same
BrandCreateFailedCreatesProduct(i) ==
  /\ i \in 1..Len(inflight)
  /\ inflight[i].cont = "brand"
  /\ inflight' =
       Append(RemoveAt(inflight, i),
              createProduct([name |-> trim(productName),
                             brandId |-> "",
                             brandName |-> trim(newBrandName)])
              @@ [cont |-> "product"])
  /\ lastAlert' = "Failed to create product"
  /\ lastOp' = "brandFailed"
  /\ UNCHANGED <<ordersVars, formVars>>

\* handleCreateProduct after api.brands.create fails: catch and finally
BrandCreateFailed(i) ==
  /\ i \in 1..Len(inflight)
  /\ inflight[i].cont = "brand"
  /\ inflight' = RemoveAt(inflight, i)
  /\ lastAlert' = "Failed to create product"
  /\ isCreating' = FALSE
  /\ lastOp' = "brandFailed"
  /\ UNCHANGED <<ordersVars, form, route, formDialog, orderItems, editVars,
                 isCreatingOrder, productVars, retailerVars>>

\* handleCreateProduct after api.products.create has succeeded
ProductCreated(i) ==
  /\ i \in 1..Len(inflight)
  /\ inflight[i].cont = "product"
  /\ inflight' = RemoveAt(inflight, i)
  /\ formDialog' = "Success!"
  /\ isCreating' = FALSE
  /\ lastOp' = "productCreated"
  /\ UNCHANGED <<ordersVars, lastAlert, form, route, orderItems, editVars,
                 isCreatingOrder, productVars, retailerVars>>

\* handleCreateProduct after api.products.create fails: catch and finally
ProductCreateFailed(i) ==
  /\ i \in 1..Len(inflight)
  /\ inflight[i].cont = "product"
  /\ inflight' = RemoveAt(inflight, i)
  /\ lastAlert' = "Failed to create product"
  /\ isCreating' = FALSE
  /\ lastOp' = "productFailed"
  /\ UNCHANGED <<ordersVars, form, route, formDialog, orderItems, editVars,
                 isCreatingOrder, productVars, retailerVars>>

\* a create that skips the test of the phone pattern
CreateRetailerAnyPhone ==
  /\ form = "new-retailer" /\ formDialog = "" /\ ~isCreating
  /\ IF trim(retailerName) = <<>>
     THEN /\ lastAlert' = "Please enter retailer name"
          /\ UNCHANGED <<isCreating, inflight>>
     ELSE IF trim(phoneNo) = <<>>
     THEN /\ lastAlert' = "Please enter phone number"
          /\ UNCHANGED <<isCreating, inflight>>
     ELSE IF selectedBit = ""
     THEN /\ lastAlert' = "Please select a bit"
          /\ UNCHANGED <<isCreating, inflight>>
     ELSE /\ Len(inflight) < MaxInFlight
          /\ isCreating' = TRUE
          /\ inflight' =
               Append(inflight,
                      createRetailer([name |-> trim(retailerName),
                                      phone |-> trim(phoneNo),
                                      bit |-> selectedBit])
                      @@ [cont |-> "retailer"])
          /\ UNCHANGED lastAlert
  /\ lastOp' = "createRetailer"
  /\ UNCHANGED <<ordersVars, form, route, formDialog, orderItems, editVars,
                 isCreatingOrder, productVars, retailerVars>>

\* handleCreateRetailer, up to the await of api.retailers.create; the
\* button is disabled while isCreating
CreateRetailer ==
  /\ form = "new-retailer" /\ formDialog = "" /\ ~isCreating
  /\ IF trim(retailerName) = <<>>
     THEN /\ lastAlert' = "Please enter retailer name"
          /\ UNCHANGED <<isCreating, inflight>>
     ELSE IF trim(phoneNo) = <<>>
     THEN /\ lastAlert' = "Please enter phone number"
          /\ UNCHANGED <<isCreating, inflight>>
     ELSE IF selectedBit = ""
     THEN /\ lastAlert' = "Please select a bit"
          /\ UNCHANGED <<isCreating, inflight>>
     ELSE IF ~phoneRegexTest(phoneNo)
     THEN /\ lastAlert' = "Please enter a valid phone number"
          /\ UNCHANGED <<isCreating, inflight>>
     ELSE /\ Len(inflight) < MaxInFlight
          /\ isCreating' = TRUE
          /\ inflight' =
               Append(inflight,
                      createRetailer([name |-> trim(retailerName),
                                      phone |-> trim(phoneNo),
                                      bit |-> selectedBit])
                      @@ [cont |-> "retailer"])
          /\ UNCHANGED lastAlert
  /\ lastOp' = "createRetailer"
  /\ UNCHANGED <<ordersVars, form, route, formDialog, orderItems, editVars,
                 isCreatingOrder, productVars, retailerVars>>

\* handleCreateRetailer after its await: the create has succeeded
RetailerCreated(i) ==
  /\ i \in 1..Len(inflight)
  /\ inflight[i].cont = "retailer"
  /\ inflight' = RemoveAt(inflight, i)
  /\ formDialog' = "Success!"
  /\ isCreating' = FALSE
  /\ lastOp' = "retailerCreated"
  /\ UNCHANGED <<ordersVars, lastAlert, form, route, orderItems, editVars,
                 isCreatingOrder, productVars, retailerVars>>

\* handleCreateRetailer after its await: the create fails, catch and finally
RetailerCreateFailed(i) ==
  /\ i \in 1..Len(inflight)
  /\ inflight[i].cont = "retailer"
  /\ inflight' = RemoveAt(inflight, i)
  /\ lastAlert' = "Failed to create retailer"
  /\ isCreating' = FALSE
  /\ lastOp' = "retailerFailed"
  /\ UNCHANGED <<ordersVars, form, route, formDialog, orderItems, editVars,
                 isCreatingOrder, productVars, retailerVars>>

\* the OK button of 'Success!': router.back()
CreateSuccessOk ==
  /\ formDialog = "Success!"
  /\ formDialog' = ""
  /\ route' = "back"
  /\ form' = "none"
  /\ lastOp' = "successOk"
  /\ UNCHANGED <<ordersVars, inflight, lastAlert, orderItems, editVars,
                 isCreatingOrder, isCreating, productVars, retailerVars>>

----------------------------------------------------------------------------
(* The Items tab: brand cleanup *)

\* brandAPI.cleanup()
cleanup == [api |-> "brands.cleanup"]

\* the two requests of loadData, awaited together with Promise.all
loadData == [api |-> "products.getAll+getUniqueBrandNames"]

\* the Items tab showing the products ps, its loads answered
ItemsTabOpen(ps) ==
  /\ form = "items" /\ route = "" /\ formDialog = ""
  /\ order = <<>> /\ orderItems = <<>>
  /\ selectedDate = [valid |-> FALSE, t |-> 0]
  /\ isSaving = FALSE /\ isCreatingOrder = FALSE /\ isCreating = FALSE
  /\ productName = <<>> /\ selectedBrand = "" /\ newBrandName = <<>>
  /\ brands = <<>>
  /\ products = ps /\ itemsLoading = FALSE /\ isCleaningUp = FALSE
  /\ retailerName = <<>> /\ phoneNo = <<>> /\ selectedBit = ""
  /\ storedOrder = <<>>

\* handleBrandCleanup: the button is disabled while isCleaningUp
BrandCleanupPress ==
  /\ form = "items" /\ formDialog = "" /\ ~isCleaningUp
  /\ formDialog' = "Cleanup Empty Brands"
  /\ lastOp' = "brandCleanupPress"
  /\ UNCHANGED <<ordersVars, inflight, lastAlert, form, route, orderItems,
                 editVars, isCreatingOrder, isCreating, productVars,
                 retailerVars>>

\* the Cancel button of the dialog
BrandCleanupCancel ==
  /\ formDialog = "Cleanup Empty Brands"
  /\ formDialog' = ""
  /\ lastOp' = "brandCleanupCancel"
  /\ UNCHANGED <<ordersVars, inflight, lastAlert, form, route, orderItems,
                 editVars, isCreatingOrder, isCreating, productVars,
                 retailerVars>>

\* the Cleanup button of the dialog, up to the await of api.brands.cleanup
BrandCleanupConfirm ==
  /\ formDialog = "Cleanup Empty Brands"
  /\ Len(inflight) < MaxInFlight
  /\ formDialog' = ""
  /\ isCleaningUp' = TRUE
  /\ inflight' = Append(inflight, cleanup @@ [cont |-> "brandCleanup"])
  /\ lastOp' = "brandCleanupConfirm"
  /\ UNCHANGED <<ordersVars, lastAlert, form, route, orderItems, editVars,
                 isCreatingOrder, isCreating, productName, selectedBrand,
                 newBrandName, brands, products, itemsLoading, retailerVars>>

\* the cleanup has succeeded: loadData() up to its await
BrandCleanupDone(i) ==
  /\ i \in 1..Len(inflight)
  /\ inflight[i].cont = "brandCleanup"
  /\ inflight' = Append(RemoveAt(inflight, i),
                        loadData @@ [cont |-> "brandCleanupReload"])
  /\ itemsLoading' = TRUE
  /\ lastOp' = "brandCleanupDone"
  /\ UNCHANGED <<ordersVars, lastAlert, form, route, formDialog, orderItems,
                 editVars, isCreatingOrder, isCreating, productName,
                 selectedBrand, newBrandName, brands, products, isCleaningUp,
                 retailerVars>>

\* the cleanup fails: catch and finally
BrandCleanupFailed(i) ==
  /\ i \in 1..Len(inflight)
  /\ inflight[i].cont = "brandCleanup"
  /\ inflight' = RemoveAt(inflight, i)
  /\ isCleaningUp' = FALSE
  /\ lastAlert' = "Failed to cleanup brands"
  /\ lastOp' = "brandCleanupFailed"
  /\ UNCHANGED <<ordersVars, form, route, formDialog, orderItems, editVars,
                 isCreatingOrder, isCreating, productName, selectedBrand,
                 newBrandName, brands, products, itemsLoading, retailerVars>>

\* loadData after its await, then the rest of the Cleanup handler: the
\* success alert and finally
BrandCleanupReloaded(i, productsData) ==
  /\ i \in 1..Len(inflight)
  /\ inflight[i].cont = "brandCleanupReload"
  /\ inflight' = RemoveAt(inflight, i)
  /\ products' = productsData
  /\ itemsLoading' = FALSE
  /\ isCleaningUp' = FALSE
  /\ lastAlert' = "Success"
  /\ lastOp' = "brandCleanupReloaded"
  /\ UNCHANGED <<ordersVars, form, route, formDialog, orderItems, editVars,
                 isCreatingOrder, isCreating, productName, selectedBrand,
                 newBrandName, brands, retailerVars>>

\* loadData catches the failure of its requests and resolves: the Cleanup
\* handler goes on to its success alert and finally
BrandCleanupReloadFailed(i) ==
  /\ i \in 1..Len(inflight)
  /\ inflight[i].cont = "brandCleanupReload"
  /\ inflight' = RemoveAt(inflight, i)
  /\ itemsLoading' = FALSE
  /\ isCleaningUp' = FALSE
  /\ lastAlert' = "Success"
  /\ lastOp' = "brandCleanupReloadFailed"
  /\ UNCHANGED <<ordersVars, form, route, formDialog, orderItems, editVars,
                 isCreatingOrder, isCreating, productName, selectedBrand,
                 newBrandName, brands, products, retailerVars>>

----------------------------------------------------------------------------
(* Inputs *)

\* Wednesday 6 March 2024, 15:00 local time, in a zone z minutes east of UTC
WednesdayAfternoon(z) == 65 * MinutesPerDay + 900 - z

\* India Standard Time, UTC+05:30
Ist == 330

NoParams == [bits |-> Undefined, status |-> Undefined, date |-> Undefined]

\* route params the edit and details screens hand back
RouteParams ==
  {NoParams, [bits |-> "all", status |-> "Completed", date |-> "today"]}

\* the options of filterOptions the user picks from in the modal
ModalBits == {"all", "Turori"}
ModalStatus == {"all", "Completed"}
ModalDates == {"all", "today"}

\* the orders a payload is made of: the sequences of at most MaxOrders
\* records of attrs, each given its position as id
Payloads(attrs) ==
  UNION {{[i \in 1..n |->
             [id |-> i, bit |-> f[i].bit, status |-> f[i].status,
              date |-> f[i].date, counterName |-> f[i].counterName]] :
          f \in [1..n -> attrs]} : n \in 0..MaxOrders}

\* the i-th order of the list the backend answers the screen with
ScreenOrder(i) ==
  [id |-> i,
   bit |-> IF i % 2 = 1 THEN "Turori" ELSE "Omerga",
   status |-> IF i % 2 = 1 THEN "Completed" ELSE "Pending",
   date |-> IF i % 2 = 1 THEN FormatDay(65) ELSE FormatDay(20),
   counterName |-> IF i % 2 = 1 THEN <<"A", "b">> ELSE <<"b">>]

\* the payloads of the screen's loads: the first n orders of that list
ScreenPayloads == {[i \in 1..n |-> ScreenOrder(i)] : n \in 0..MaxOrders}

----------------------------------------------------------------------------
(* The Orders screen: filter modal and loads *)

Init == \E p \in RouteParams : Mount(p, WednesdayAfternoon(Ist), Ist)

Next ==
  \/ OpenFilterModal
  \/ \E v \in ModalBits : SetTempBitsFilter(v)
  \/ \E v \in ModalStatus : SetTempStatusFilter(v)
  \/ \E v \in ModalDates : SetTempDateFilter(v)
  \/ ClearAllFilters
  \/ DismissModal
  \/ ApplyFilters
  \/ Refresh
  \/ \E p \in RouteParams : IncomingParamsChange(p)
  \/ \E i \in 1..Len(inflight) : \E payload \in ScreenPayloads :
       ReceiveOrders(i, payload)
  \/ \E i \in 1..Len(inflight) : ReceiveError(i)

Spec == Init /\ [][Next]_vars

----------------------------------------------------------------------------
(* Claims on the filter modal *)

AllFilters == [bits |-> "all", status |-> "all", date |-> "all"]

\* C1: unless the route params set them since, the committed filters are
\* the staged values of the most recent Apply, or the initial values when
\* Apply was never pressed, whatever opens, staged edits, Clear All presses
\* and dismissals happened.
CommittedIsLastApplied ==
  commitSource # "params" => Committed = lastApplied

CommittedIsLastAppliedWitness ==
  /\ lastOp = "dismiss"
  /\ commitSource = "apply"
  /\ Staged # Committed
  /\ Committed # AllFilters

\* C2: opening the modal, staging a value and dismissing the modal each
\* leave the committed filters, the orders cache and the rendered list as
\* they were, and issue no request.
DismissKeepsCommitted ==
  [][lastOp' \in {"open", "stage", "dismiss"} =>
       /\ Committed' = Committed
       /\ orders' = orders
       /\ filteredOrders' = filteredOrders
       /\ inflight' = inflight]_vars

DismissKeepsCommittedWitness ==
  /\ lastOp = "dismiss"
  /\ Staged # Committed
  /\ Len(orders) = 2
  /\ Len(filteredOrders) = 1

\* C3: Clear All sets every staged filter to 'all', leaves the committed
\* filters and the rendered list as they were, keeps the modal open and
\* issues no request; the committed filters change only in an Apply step
\* (or when the route params change).
ClearAllOnlyStaged ==
  [][/\ lastOp' = "clear" =>
          /\ Staged' = AllFilters
          /\ Committed' = Committed
          /\ filteredOrders' = filteredOrders
          /\ isModalVisible /\ isModalVisible'
          /\ inflight' = inflight
     /\ Committed' # Committed => lastOp' \in {"apply", "params"}]_vars

ClearAllOnlyStagedWitness ==
  /\ lastOp = "clear"
  /\ Committed # AllFilters
  /\ Staged = AllFilters
  /\ isModalVisible
  /\ Len(orders) = 2
  /\ Len(filteredOrders) = 1

\* C4: Apply commits every staged filter, closes the modal and issues one
\* orders-list request whose bit and status parameters are the values just
\* applied, 'all' being sent as an absent parameter.
ApplyRequestsStaged ==
  [][lastOp' = "apply" =>
       /\ Committed' = Staged
       /\ ~isModalVisible'
       /\ Len(inflight') = Len(inflight) + 1
       /\ SubSeq(inflight', 1, Len(inflight)) = inflight
       /\ LET r == inflight'[Len(inflight')]
          IN  /\ r.api = "orders.getAll"
              /\ r.bit = IF tempBitsFilter = "all" THEN Undefined
                         ELSE tempBitsFilter
              /\ r.status = IF tempStatusFilter = "all" THEN Undefined
                            ELSE tempStatusFilter
              /\ r.search = Undefined]_vars

ApplyRequestsStagedWitness ==
  /\ lastOp = "apply"
  /\ Len(inflight) = 2
  /\ inflight[1].bit = Undefined /\ inflight[1].status = "Completed"
  /\ inflight[2].bit = "Turori" /\ inflight[2].status = Undefined
  /\ bitsFilter = "Turori" /\ statusFilter = "all"

----------------------------------------------------------------------------
(* The search input: typing, time, the debounce timer, unmount *)

SearchChars == {"a", "B", " "}

\* the texts of at most MaxQueryLen characters
SearchTexts == UNION {[1..n -> SearchChars] : n \in 0..MaxQueryLen}

InitDebounce == Mount(NoParams, WednesdayAfternoon(Ist), Ist)

NextDebounce ==
  \/ \E q \in SearchTexts : ChangeText(q)
  \/ Tick
  \/ \E t \in timers : TimerFire(t)
  \/ Unmount

SpecDebounce == InitDebounce /\ [][NextDebounce]_vars

\* C5: within a burst of text changes, each less than the quiet period
\* after the one before, the debounced text is not updated while the burst
\* lasts and is updated at most once after it, to the final text.
DebounceCoalesces ==
  /\ burstFires <= 1
  /\ sinceKey < DebounceMs => burstFires = 0
  /\ burstFires = 1 => debouncedSearchQuery = searchQuery

DebounceCoalescesWitness ==
  /\ burstKeys = 2
  /\ burstFires = 1
  /\ Len(searchQuery) = 2
  /\ debouncedSearchQuery = searchQuery

\* C6: unmounting clears the pending debounce timer; once the screen is
\* unmounted no timer fires and the debounced text keeps its value.
UnmountClearsTimer ==
  [][/\ ~mounted' => timers' = {}
     /\ ~mounted => /\ debouncedSearchQuery' = debouncedSearchQuery
                    /\ lastOp' # "timer"]_vars

UnmountClearsTimerWitness ==
  /\ ~mounted
  /\ burstKeys = 2
  /\ sinceKey = DebounceMs
  /\ searchQuery # debouncedSearchQuery

----------------------------------------------------------------------------
(* The derived list as a function of the cache, the committed filters and *)
(* the debounced search text                                               *)

\* the elements of a sequence
Range(q) == {q[i] : i \in 1..Len(q)}

DeriveParams ==
  [bits : {Undefined, "Turori"},
   status : {Undefined, "Pending", "Completed"},
   date : {Undefined, "today", "week"}]

DeriveTexts == {q \in SearchTexts : Len(q) <= 1}

DeriveOrders ==
  [bit : {"Turori", "Omerga"},
   status : {"Pending", "Completed"},
   date : {FormatDay(65), FormatDay(20)},
   counterName : {<<"A", "b">>, <<"B">>}]

DerivePayloads == Payloads(DeriveOrders)

InitDerive ==
  \E p \in DeriveParams, q \in DeriveTexts :
     Settled(p, q, WednesdayAfternoon(Ist), Ist)

NextDerive ==
  \E i \in 1..Len(inflight) : \E payload \in DerivePayloads :
     ReceiveOrders(i, payload)

SpecDerive == InitDerive /\ [][NextDerive]_vars

\* the conjunction of the four committed filters, on one order
PassesEveryFilter(o) ==
  /\ bitsFilter = "all" \/ o.bit = bitsFilter
  /\ statusFilter = "all" \/ o.status = statusFilter
  /\ dateFilter = "all"
       \/ DatePasses(dateFilter, ParseForFilter(o.date), dateFilterFunctions)
  /\ trim(debouncedSearchQuery) = <<>>
       \/ includes(toLowerCase(o.counterName),
                   toLowerCase(debouncedSearchQuery))

\* C7: the rendered list is the cache restricted to the orders that pass
\* the bit filter and the status filter and the date filter and the search
\* match, a filter set to 'all' (a blank search) passing every order; with
\* any one filter relaxed the list only grows.
FilteredIsConjunction ==
  /\ filteredOrders = SelectSeq(orders, PassesEveryFilter)
  /\ Range(filteredOrders) \subseteq
       Range(filterOrders(orders, "all", statusFilter, dateFilter,
                          debouncedSearchQuery, dateFilterFunctions))
  /\ Range(filteredOrders) \subseteq
       Range(filterOrders(orders, bitsFilter, "all", dateFilter,
                          debouncedSearchQuery, dateFilterFunctions))
  /\ Range(filteredOrders) \subseteq
       Range(filterOrders(orders, bitsFilter, statusFilter, "all",
                          debouncedSearchQuery, dateFilterFunctions))
  /\ Range(filteredOrders) \subseteq
       Range(filterOrders(orders, bitsFilter, statusFilter, dateFilter,
                          <<>>, dateFilterFunctions))

FilteredIsConjunctionWitness ==
  /\ lastOp = "loaded"
  /\ bitsFilter = "Turori" /\ statusFilter = "Completed"
  /\ dateFilter = "today" /\ debouncedSearchQuery = <<"a">>
  /\ Len(orders) = 2
  /\ Len(filteredOrders) = 1
  /\ \E i \in 1..2 :
       /\ orders[i].counterName = <<"A", "b">>
       /\ orders[i].bit = "Omerga"

----------------------------------------------------------------------------
(* Date buckets and the cleanup selection, over dates, clocks and zones *)

\* Wednesday 6 March 2024, 03:00 local time, in a zone z minutes east of UTC
WednesdayNight(z) == 65 * MinutesPerDay + 180 - z

\* New York (UTC-05:00), UTC and India
DateZones == {0 - 300, 0, Ist}

DateParams ==
  [bits : {Undefined}, status : {Undefined},
   date : {Undefined, "today", "week", "month"}]

\* today, yesterday, the Sunday and the Saturday before, the first of the
\* month and the day before, 30 and 31 days ago; then a word, today's date
\* as 2024-03-06 and the string 32/01/2024
DateStrings ==
  {FormatDay(d) : d \in {65, 64, 62, 61, 60, 59, 35, 34}}
    \cup {Text, Iso(3, 6), Dmy(32, 1)}

DateOrders ==
  [bit : {"Turori"}, status : {"Completed"}, date : DateStrings,
   counterName : {<<"A", "b">>}]
    \cup [bit : {"Turori"}, status : {"Pending"},
          date : {FormatDay(65), FormatDay(34)},
          counterName : {<<"A", "b">>}]

DatePayloads == Payloads(DateOrders)

\* a cleanup request is in flight or its dialog is open
CleanupPending ==
  oldOrders # <<>> \/ \E i \in 1..Len(inflight) : inflight[i].cont = "cleanup"

InitDates ==
  \E p \in DateParams, z \in DateZones :
     \E t \in {WednesdayNight(z), WednesdayAfternoon(z)} :
        Settled(p, <<>>, t, z)

\* one cleanup at a time; the backend holds the same orders for the cleanup
\* fetch as for the load that filled the cache
NextDates ==
  \/ \E i \in 1..Len(inflight) : \E payload \in DatePayloads :
       ReceiveOrders(i, payload)
  \/ ~CleanupPending /\ CleanupPress
  \/ \E i \in 1..Len(inflight) : CleanupFetched(i, orders)
  \/ \E i \in 1..Len(inflight) : CleanupFetchFailed(i)
  \/ CleanupCancel

SpecDates == InitDates /\ [][NextDates]_vars

\* the date string is DD/MM/YYYY of a day of the calendar
IsDayMonthYear(date) ==
  \E d \in 0..(MonthStarts[NumMonths + 1] - 1) : date = FormatDay(d)

\* the day a DD/MM/YYYY string names
DayOf(date) ==
  CHOOSE d \in 0..(MonthStarts[NumMonths + 1] - 1) : date = FormatDay(d)

\* the current calendar day of the device
Today == LocalDay(now, tz)

\* first day of the bucket a date filter names
BucketStart(f) ==
  CASE f = "today" -> Today
    [] f = "week"  -> Today - getDay(Today)
    [] f = "month" -> FirstOfMonth(Today)

\* C8: with date filter 'today', 'week' or 'month' an order of the cache is
\* rendered iff its day is on or after the current day, the most recent
\* Sunday, or the first day of the current month.
DateBucketsByDay ==
  dateFilter \in {"today", "week", "month"} =>
    \A i \in 1..Len(orders) :
       IsDayMonthYear(orders[i].date) =>
         (orders[i] \in Range(filteredOrders)
            <=> DayOf(orders[i].date) >= BucketStart(dateFilter))

\* C9: an order whose date is not a day/month/year string is left out of
\* the rendered list under every date bucket, kept under 'all', and never
\* listed for cleanup.
MalformedDateExcluded ==
  /\ \A i \in 1..Len(orders) :
       ~IsDayMonthYear(orders[i].date) =>
         (orders[i] \in Range(filteredOrders) <=> dateFilter = "all")
  /\ \A j \in 1..Len(oldOrders) : IsDayMonthYear(oldOrders[j].date)

\* C10: of the fetched orders with a day/month/year date, the cleanup lists
\* those that are Completed and dated 31 days or more before today, in the
\* order fetched; it lists no Pending order.
CleanupEligibility ==
  /\ oldOrders = SelectSeq(allOrders, LAMBDA o : o \in Range(oldOrders))
  /\ \A j \in 1..Len(oldOrders) : oldOrders[j].status = "Completed"
  /\ \A i \in 1..Len(allOrders) :
       IsDayMonthYear(allOrders[i].date) =>
         (allOrders[i] \in Range(oldOrders)
            <=> /\ allOrders[i].status = "Completed"
                /\ DayOf(allOrders[i].date) <= Today - 31)

CleanupEligibilityWitness ==
  /\ lastOp = "cleanupFetched"
  /\ Len(allOrders) = 2
  /\ allOrders[1].date = FormatDay(35) /\ allOrders[1].status = "Completed"
  /\ allOrders[2].date = FormatDay(34) /\ allOrders[2].status = "Completed"
  /\ oldOrders = <<allOrders[2]>>

----------------------------------------------------------------------------
(* The Orders screen: cleanup and deletion *)

\* route params of the mounts: no filter, or a bit and a status
CleanupParams ==
  {NoParams, [bits |-> "Turori", status |-> "Completed", date |-> Undefined]}

\* search texts of the mounts
CleanupTexts == {<<>>, <<"b">>}

\* the orders the backend may hold when the cleanup fetches them: an old
\* Completed one, an old Pending one, a Completed one of today
CleanupOrders ==
  {[bit |-> "Turori", status |-> "Completed", date |-> FormatDay(20),
    counterName |-> <<"b">>],
   [bit |-> "Omerga", status |-> "Pending", date |-> FormatDay(20),
    counterName |-> <<"b">>],
   [bit |-> "Turori", status |-> "Completed", date |-> FormatDay(65),
    counterName |-> <<"A", "b">>]}

CleanupPayloads == Payloads(CleanupOrders)

InitCleanup ==
  \E p \in CleanupParams, q \in CleanupTexts :
     Settled(p, q, WednesdayAfternoon(Ist), Ist)

\* one cleanup fetch or dialog at a time
NextCleanup ==
  \/ \E i \in 1..Len(inflight) : \E payload \in ScreenPayloads :
       ReceiveOrders(i, payload)
  \/ \E i \in 1..Len(inflight) : ReceiveError(i)
  \/ ~CleanupPending /\ CleanupPress
  \/ \E i \in 1..Len(inflight) : \E payload \in CleanupPayloads :
       CleanupFetched(i, payload)
  \/ \E i \in 1..Len(inflight) : CleanupFetchFailed(i)
  \/ CleanupCancel
  \/ CleanupConfirm
  \/ \E i \in 1..Len(inflight) : BatchDeleted(i)
  \/ \E i \in 1..Len(inflight) : BatchDeleteFailed(i)
  \/ \E o \in Range(orders) : DeletePress(o)
  \/ DeleteCancel
  \/ DeleteConfirm
  \/ \E i \in 1..Len(inflight) : DeleteDone(i)
  \/ \E i \in 1..Len(inflight) : DeleteFailed(i)

SpecCleanup == InitCleanup /\ [][NextCleanup]_vars

\* the requests in flight that satisfy Test
InFlight(Test(_)) == {i \in 1..Len(inflight) : Test(inflight[i])}

IsBatchDelete(r) == r.api = "orders.deleteOldCompleted"

IsReload(r) == r.api = "orders.getAll" /\ r.cont # "cleanup"

IsCleanupFetch(r) == r.api = "orders.getAll" /\ r.cont = "cleanup"

\* C11: a batch delete request is issued only by the Delete button of a
\* confirmation dialog open for a positive count of eligible orders; a
\* cleanup fetch that finds nothing, and the Cancel button, issue no
\* delete request and no reload.
CleanupDeletesOnlyOnConfirm ==
  [][/\ Cardinality(InFlight(IsBatchDelete)')
          > Cardinality(InFlight(IsBatchDelete))
        => /\ lastOp' = "cleanupConfirm"
           /\ Len(oldOrders) > 0
           /\ inflight'[Len(inflight')].count = Len(oldOrders)
     /\ (lastOp' = "cleanupFetched" /\ oldOrders' = <<>>)
        => /\ lastAlert' = "No Old Orders"
           /\ Cardinality(InFlight(IsBatchDelete)')
                = Cardinality(InFlight(IsBatchDelete))
           /\ Cardinality(InFlight(IsReload)')
                = Cardinality(InFlight(IsReload))
     /\ lastOp' = "cleanupCancel" => inflight' = inflight]_vars

CleanupDeletesOnlyOnConfirmWitness ==
  /\ lastOp = "cleanupConfirm"
  /\ inflight # <<>>
  /\ IsBatchDelete(inflight[Len(inflight)])
  /\ inflight[Len(inflight)].count = 2

\* C12: the cleanup fetch carries no bit, status or search parameter, and
\* the ids the Delete button submits are those of the eligible orders of
\* the fetched payload: they depend on the payload and the clock only, not
\* on the committed filters, the search text or the cache.
CleanupIdsFromFreshFetch ==
  [][/\ \A i \in InFlight(IsCleanupFetch)' :
          /\ inflight'[i].bit = Undefined
          /\ inflight'[i].status = Undefined
          /\ inflight'[i].search = Undefined
     /\ lastOp' = "cleanupConfirm"
        => inflight'[Len(inflight')].ids
             = OrderIds(SelectSeq(allOrders,
                  LAMBDA o : /\ o.status = "Completed"
                             /\ IsDayMonthYear(o.date)
                             /\ DayOf(o.date) <= Today - 31))]_vars

CleanupIdsFromFreshFetchWitness ==
  /\ lastOp = "cleanupConfirm"
  /\ bitsFilter = "Turori" /\ statusFilter = "Completed"
  /\ debouncedSearchQuery = <<"b">>
  /\ orders = <<>>
  /\ inflight[Len(inflight)].ids = <<2>>

\* C13: the Delete button sends one batch request with the ids of all the
\* listed orders; the reload is issued only when a batch request has
\* succeeded; when it fails no reload is issued and the failure message is
\* shown.
CleanupBatchThenReload ==
  [][/\ lastOp' = "cleanupConfirm"
        => /\ Len(inflight') = Len(inflight) + 1
           /\ SubSeq(inflight', 1, Len(inflight)) = inflight
           /\ IsBatchDelete(inflight'[Len(inflight')])
           /\ inflight'[Len(inflight')].ids = OrderIds(oldOrders)
     /\ Cardinality(InFlight(LAMBDA r : r.cont = "cleanupReload")')
          > Cardinality(InFlight(LAMBDA r : r.cont = "cleanupReload"))
        => /\ lastOp' = "cleanupDeleted"
           /\ Cardinality(InFlight(IsBatchDelete)')
                = Cardinality(InFlight(IsBatchDelete)) - 1
     /\ lastOp' = "cleanupDeleteFailed"
        => /\ Cardinality(InFlight(IsReload)')
                = Cardinality(InFlight(IsReload))
           /\ lastAlert' = "Failed to delete orders"]_vars

CleanupBatchThenReloadWitness ==
  /\ lastOp = "cleanupDeleted"
  /\ inflight[Len(inflight)].cont = "cleanupReload"
  /\ lastAlert # "Failed to delete orders"

\* a request that changes what the backend stores
IsMutation(r) ==
  r.api \in {"orders.delete", "orders.deleteOldCompleted", "orders.update",
             "orders.create"}

\* C14: while a mutation request is in flight its control is disabled: no
\* two identical mutation requests of the screen are in flight together.
NoDoubleSubmission ==
  \A i, j \in InFlight(IsMutation) :
     (i # j) => (inflight[i] # inflight[j])

----------------------------------------------------------------------------
(* The form screens: edit-order, new-order, order-summary, new-item,
   new-retailer, with the brand cleanup of the Items tab and the delete of
   the Orders tab *)

Item(productId, unit, quantity, productNotes) ==
  [productId |-> productId, unit |-> unit, quantity |-> quantity,
   productNotes |-> productNotes]

\* the (productId, unit) pairs the product modal offers
FormPairs == {<<"p1", "Pc">>, <<"p1", "Case">>}

\* the notes typed into a notes input
FormNotes == {"", "n"}

\* the orders the edit screen is opened with, as the backend stored them:
\* a Pending one, a Completed one without items, a Pending one that has an
\* item of quantity 0
LoadedOrders ==
  {[id |-> 1, status |-> "Pending", date |-> FormatDay(20),
    items |-> <<Item("p1", "Case", 2, "n")>>],
   [id |-> 2, status |-> "Completed", date |-> FormatDay(65),
    items |-> <<>>],
   [id |-> 3, status |-> "Pending", date |-> FormatDay(20),
    items |-> <<Item("p1", "Pc", 0, "")>>]}

\* the orderItems param the summary screen is opened with
SummaryItems == {<<>>, <<Item("p1", "Case", 2, "n"), Item("p1", "Pc", 1, "")>>}

\* the texts typed into a name input
FormNames == {<<>>, <<" ">>, <<"a">>, <<" ", "a", " ">>}

\* n times the digit 9
Digits(n) == [i \in 1..n |-> "9"]

\* the texts typed into the phone input
FormPhones ==
  {<<>>, <<" ">>, Digits(MinPhoneLen), Digits(MinPhoneLen - 1),
   <<"+">> \o Digits(MinPhoneLen), <<"+">> \o Digits(MinPhoneLen - 1),
   Digits(MinPhoneLen - 1) \o <<"a">>, <<" ">> \o Digits(MinPhoneLen),
   <<"(">> \o Digits(MinPhoneLen - 2) \o <<")">>}

\* the brands the new-item screen has loaded
FormBrands == <<[id |-> "b1", name |-> "B1"]>>

\* the products the Items tab is answered with
FormProducts ==
  {<<>>, <<[id |-> "x1", name |-> <<"a">>, brandName |-> "B1"]>>}

\* the brand the backend answers a brand create with
CreatedBrand == [id |-> "b2", name |-> <<"a">>]

InitForms ==
  \/ /\ QuietTab(NoParams, WednesdayAfternoon(Ist), Ist)
     /\ \/ \E o \in LoadedOrders : EditOrderOpen(o)
        \/ NewOrderOpen(<<>>)
        \/ \E items \in SummaryItems : OrderSummaryOpen(items)
        \/ \E name \in FormNames, brand \in {"", "B1"},
              newBrand \in FormNames :
             NewItemOpen(name, brand, newBrand, FormBrands)
        \/ \E name \in FormNames, phone \in FormPhones,
              bit \in {"", "Turori"} :
             NewRetailerOpen(name, phone, bit)
        \/ \E ps \in FormProducts : ItemsTabOpen(ps)
  \/ Settled(NoParams, <<>>, WednesdayAfternoon(Ist), Ist)

NextForms ==
  \/ \E pair \in FormPairs, quantity \in 1..MaxQty, notes \in FormNotes :
       AddToOrder(pair[1], pair[2], quantity, notes)
  \/ \E pair \in FormPairs, newQuantity \in (-1)..MaxQty :
       UpdateQuantity(pair[1], pair[2], newQuantity)
  \/ \E pair \in FormPairs, notes \in FormNotes :
       UpdateNotes(pair[1], pair[2], notes)
  \/ \E pair \in FormPairs : RemoveItem(pair[1], pair[2])
  \/ DateToday
  \/ SaveOrder
  \/ \E i \in 1..Len(inflight) : SaveDone(i)
  \/ \E i \in 1..Len(inflight) : SaveFailed(i)
  \/ CompletePress
  \/ CompleteCancel
  \/ CompleteConfirm
  \/ \E i \in 1..Len(inflight) : CompleteDone(i)
  \/ \E i \in 1..Len(inflight) : CompleteFailed(i)
  \/ EditSuccessOk
  \/ \E pair \in FormPairs, quantity \in 1..MaxQty, notes \in FormNotes :
       NewAddToOrder(pair[1], pair[2], quantity, notes)
  \/ NavigateToSummary
  \/ ConfirmOrder
  \/ \E i \in 1..Len(inflight) : ConfirmDone(i)
  \/ \E i \in 1..Len(inflight) : ConfirmFailed(i)
  \/ SummarySuccessOk
  \/ CreateProduct
  \/ \E i \in 1..Len(inflight) : BrandCreated(i, CreatedBrand)
  \/ \E i \in 1..Len(inflight) : BrandCreateFailed(i)
  \/ \E i \in 1..Len(inflight) : ProductCreated(i)
  \/ \E i \in 1..Len(inflight) : ProductCreateFailed(i)
  \/ CreateRetailer
  \/ \E i \in 1..Len(inflight) : RetailerCreated(i)
  \/ \E i \in 1..Len(inflight) : RetailerCreateFailed(i)
  \/ CreateSuccessOk
  \/ BrandCleanupPress
  \/ BrandCleanupCancel
  \/ BrandCleanupConfirm
  \/ \E i \in 1..Len(inflight) : BrandCleanupDone(i)
  \/ \E i \in 1..Len(inflight) : BrandCleanupFailed(i)
  \/ \E i \in 1..Len(inflight) : \E ps \in FormProducts :
       BrandCleanupReloaded(i, ps)
  \/ \E i \in 1..Len(inflight) : BrandCleanupReloadFailed(i)
  \/ \E i \in 1..Len(inflight) : \E payload \in ScreenPayloads :
       ReceiveOrders(i, payload)
  \/ \E i \in 1..Len(inflight) : ReceiveError(i)
  \/ \E o \in Range(orders) : form = "none" /\ DeletePress(o)
  \/ DeleteCancel
  \/ DeleteConfirm
  \/ \E i \in 1..Len(inflight) : DeleteDone(i)
  \/ \E i \in 1..Len(inflight) : DeleteFailed(i)

SpecForms == InitForms /\ [][NextForms]_vars

\* the requests in flight that carry a body
Bodies == {inflight[i] : i \in InFlight(LAMBDA r : "body" \in DOMAIN r)}

\* C15: no request sets a status other than Completed, the Complete dialog
\* and the request it sends exist only for an order whose status is
\* Pending, and the request of a Save carries no status field.
StatusOneWay ==
  /\ \A r \in Bodies :
       /\ "status" \in DOMAIN r.body
          => /\ r.body.status = "Completed"
             /\ r.cont = "complete"
             /\ order[1].status = "Pending"
       /\ r.cont = "save" => DOMAIN r.body = {"items", "totalItems", "date"}
  /\ formDialog = "Mark Order as Completed" => order[1].status = "Pending"

StatusOneWayWitness ==
  /\ order # <<>> /\ order[1].status = "Pending"
  /\ \E r \in Bodies : r.cont = "save" /\ r.body.date = FormatDay(65)

\* the item list alone: the edit-order and new-order screens, their item
\* operations and nothing else
InitItems ==
  /\ QuietTab(NoParams, WednesdayAfternoon(Ist), Ist)
  /\ \/ \E o \in LoadedOrders : EditOrderOpen(o)
     \/ NewOrderOpen(<<>>)

NextItems ==
  \/ \E pair \in FormPairs, quantity \in 1..MaxQty, notes \in FormNotes :
       AddToOrder(pair[1], pair[2], quantity, notes)
  \/ \E pair \in FormPairs, newQuantity \in (-1)..MaxQty :
       UpdateQuantity(pair[1], pair[2], newQuantity)
  \/ \E pair \in FormPairs, notes \in FormNotes :
       UpdateNotes(pair[1], pair[2], notes)
  \/ \E pair \in FormPairs : RemoveItem(pair[1], pair[2])
  \/ \E pair \in FormPairs, quantity \in 1..MaxQty, notes \in FormNotes :
       NewAddToOrder(pair[1], pair[2], quantity, notes)

SpecItems == InitItems /\ [][NextItems]_vars

\* the positions of items that hold the pair (productId, unit)
PairAt(items, productId, unit) ==
  {j \in 1..Len(items) :
     items[j].productId = productId /\ items[j].unit = unit}

\* at most one item per (productId, unit) pair
UniquePairs(items) ==
  \A j, k \in 1..Len(items) :
     (items[j].productId = items[k].productId /\ items[j].unit = items[k].unit)
     => j = k

\* what an add of quantity to the pair has done to the list before
Upserted(before, after, productId, unit, quantity) ==
  /\ UniquePairs(after)
  /\ IF PairAt(before, productId, unit) # {}
     THEN /\ Len(after) = Len(before)
          /\ \A j \in 1..Len(before) :
               IF j \in PairAt(before, productId, unit)
               THEN /\ after[j].productId = productId
                    /\ after[j].unit = unit
                    /\ after[j].quantity = quantity
               ELSE after[j] = before[j]
     ELSE /\ Len(after) = Len(before) + 1
          /\ SubSeq(after, 1, Len(before)) = before
          /\ after[Len(after)].productId = productId
          /\ after[Len(after)].unit = unit
          /\ after[Len(after)].quantity = quantity

\* C16: the item list never holds two items of one (productId, unit) pair,
\* and an add on the edit-order or new-order screen overwrites the quantity
\* of the pair in place when it is present and appends one item when it is
\* absent.
ItemUpsert ==
  /\ []UniquePairs(orderItems)
  /\ [][\A pair \in FormPairs, quantity \in 1..MaxQty, notes \in FormNotes :
          (\/ AddToOrder(pair[1], pair[2], quantity, notes)
           \/ NewAddToOrder(pair[1], pair[2], quantity, notes))
          => Upserted(orderItems, orderItems', pair[1], pair[2], quantity)]_vars

ItemUpsertWitness ==
  /\ form = "edit-order" /\ order[1].id = 1 /\ lastOp = "add"
  /\ orderItems = <<Item("p1", "Case", 1, ""), Item("p1", "Pc", 2, "n")>>

\* the sum of the quantities of items
SumOfQuantities(items) ==
  LET sum[n \in 0..Len(items)] ==
        IF n = 0 THEN 0 ELSE sum[n - 1] + items[n].quantity
  IN  sum[Len(items)]

\* C17: the totalItems of every order create and order update request in
\* flight is the sum of the quantities of the items of that request, and
\* the total on the screen is the sum of the quantities of the item list.
TotalIsSumOfQuantities ==
  /\ \A r \in Bodies :
       r.api \in {"orders.create", "orders.update"}
       => r.body.totalItems = SumOfQuantities(r.body.items)
  /\ getTotalItems = SumOfQuantities(orderItems)

TotalIsSumOfQuantitiesWitness ==
  \E r \in Bodies :
     /\ r.api = "orders.create"
     /\ Len(r.body.items) = 2
     /\ r.body.totalItems = 3
     /\ getTotalItems = 3

\* C18: every item of every order update request in flight, of a Save or
\* of a Complete, has a quantity greater than zero, whatever item list the
\* order was loaded with.
NoZeroQuantitySent ==
  \A r \in Bodies :
     r.api = "orders.update"
     => \A j \in 1..Len(r.body.items) : r.body.items[j].quantity > 0

\* the steps that handle the failure of a mutation request
MutationFailures ==
  {"saveFailed", "completeFailed", "confirmFailed", "brandFailed",
   "productFailed", "retailerFailed", "brandCleanupFailed", "deleteFailed"}

Blank(s) == \A i \in 1..Len(s) : s[i] \in {" ", "\t"}

\* a phone text of the shape the retailer form asks for: an optional plus
\* sign, then MinPhoneLen or more digits, spaces, dashes and parentheses
WellFormedPhone(s) ==
  \E sign \in {0, 1} :
     /\ sign = 1 => (Len(s) >= 1 /\ s[1] = "+")
     /\ Len(s) - sign >= MinPhoneLen
     /\ \A i \in (sign + 1)..Len(s) : s[i] \in PhoneChars

\* the press of a submit button whose form fails its validation
RejectedSubmit ==
  \/ /\ form = "edit-order"
     /\ lastOp' \in {"save", "saveRejected"}
     /\ orderItems = <<>>
  \/ /\ form = "order-summary"
     /\ lastOp' \in {"confirm", "confirmRejected"}
     /\ orderItems = <<>>
  \/ /\ form = "new-item"
     /\ lastOp' = "createProduct"
     /\ \/ Blank(productName)
        \/ selectedBrand = "" /\ Blank(newBrandName)
        \/ selectedBrand # "" /\ ~Blank(newBrandName)
  \/ /\ form = "new-retailer"
     /\ lastOp' = "createRetailer"
     /\ \/ Blank(retailerName)
        \/ Blank(phoneNo)
        \/ selectedBit = ""
        \/ ~WellFormedPhone(phoneNo)

\* C20: a Save or a Confirm with an empty item list, a product create
\* without a name or with neither or both of an existing and a new brand,
\* and a retailer create without a name, phone or bit or with a phone the
\* form's pattern rejects, send no request and set no in-flight flag.
ValidationStopsRequests ==
  [][RejectedSubmit
     => /\ inflight' = inflight
        /\ ~isSaving' /\ ~isCreatingOrder' /\ ~isCreating']_vars

ValidationStopsRequestsWitness ==
  /\ form = "new-retailer" /\ lastOp = "createRetailer"
  /\ ~Blank(retailerName) /\ selectedBit # ""
  /\ phoneNo = Digits(MinPhoneLen - 1) \o <<"a">>
  /\ lastAlert = "Please enter a valid phone number"
  /\ inflight = <<>> /\ ~isCreating


IsBrandCreate(r) == r.api = "brands.create"

IsProductCreate(r) == r.api = "products.create"

\* C22: with a new brand name the brand create goes first and alone; the
\* product create is sent in the step that takes the answered brand create
\* out of flight and carries the id of the brand returned; a failed brand
\* create is followed by no product create; and no request other than the
\* two creates is ever sent by the form, a delete of the brand included.
BrandThenProduct ==
  /\ [](form = "new-item"
        => \A i \in 1..Len(inflight) :
              inflight[i].api \in {"brands.create", "products.create"})
  /\ [][/\ lastOp' = "createProduct" /\ InFlight(IsBrandCreate)' # {}
           => InFlight(IsProductCreate)' = {}
        /\ (InFlight(IsBrandCreate) # {} /\ InFlight(IsBrandCreate)' = {})
           => \/ /\ lastOp' = "brandCreated"
                 /\ \A i \in InFlight(IsProductCreate)' :
                      inflight'[i].body.brandId = CreatedBrand.id
                 /\ InFlight(IsProductCreate)' # {}
              \/ /\ lastOp' = "brandFailed"
                 /\ inflight' = <<>>
        /\ lastOp' = "productFailed" => inflight' = <<>>]_vars

BrandThenProductWitness ==
  /\ form = "new-item" /\ lastOp = "brandCreated"
  /\ selectedBrand = ""
  /\ Len(inflight) = 1
  /\ inflight[1].api = "products.create"
  /\ inflight[1].body.brandId = CreatedBrand.id


\* C23: with any number of loads in flight, the step that takes a
\* successful response sets the cache to the payload of that response, the
\* step that takes a failed one leaves the cache alone, and no other step
\* writes the cache.
OverlappingLoadsKeepCache ==
  [][/\ lastOp' = "loaded"
        => \E i \in 1..Len(inflight), payload \in ScreenPayloads :
              ReceiveOrders(i, payload) /\ orders' = payload
     /\ lastOp' # "loaded" => orders' = orders]_vars

OverlappingLoadsKeepCacheWitness ==
  /\ lastOp = "loaded"
  /\ orders # <<>>
  /\ \E i \in 1..Len(inflight) :
        inflight[i].api = "orders.getAll" /\ inflight[i].bit = "Turori"


----------------------------------------------------------------------------
(* The Orders screen against a backend that answers each query with the
   orders that match it *)

\* the orders the backend stores
BackendOrders == [i \in 1..MaxOrders |-> ScreenOrder(i)]

\* the answer to GET /orders with the query of request r
Answer(r) ==
  SelectSeq(BackendOrders,
            LAMBDA o : /\ r.bit # Undefined => o.bit = r.bit
                       /\ r.status # Undefined => o.status = r.status)

\* loadOrders after its await: the backend's answer to request i arrives
AnswerOrders(i) == ReceiveOrders(i, Answer(inflight[i]))

InitRace == \E p \in RouteParams : Mount(p, WednesdayAfternoon(Ist), Ist)

NextRace ==
  \/ OpenFilterModal
  \/ \E v \in ModalBits : SetTempBitsFilter(v)
  \/ \E v \in ModalStatus : SetTempStatusFilter(v)
  \/ \E v \in ModalDates : SetTempDateFilter(v)
  \/ ClearAllFilters
  \/ DismissModal
  \/ ApplyFilters
  \/ Refresh
  \/ \E p \in RouteParams : IncomingParamsChange(p)
  \/ \E i \in 1..Len(inflight) : AnswerOrders(i)
  \/ \E i \in 1..Len(inflight) : ReceiveError(i)

SpecRace == InitRace /\ [][NextRace]_vars

\* C24: once every load has resolved, and none of them has failed, the
\* cache holds the answer to the query of the committed bit and status
\* filters, which is the query of the load issued last.
LateResponseSuperseded ==
  (inflight = <<>> /\ lastAlert = "")
  => orders = Answer(loadOrders(Undefined, Undefined, "load"))


\* C26: every order of the rendered list has the committed bit, unless that
\* is 'all', and the committed status, unless that is 'all', also while the
\* cache holds the answer to an older filter combination.
RenderedMatchesCommitted ==
  \A j \in 1..Len(filteredOrders) :
     /\ bitsFilter # "all" => filteredOrders[j].bit = bitsFilter
     /\ statusFilter # "all" => filteredOrders[j].status = statusFilter

RenderedMatchesCommittedWitness ==
  /\ statusFilter = "Completed"
  /\ inflight = <<>>
  /\ \E j \in 1..Len(orders) : orders[j].status = "Pending"
  /\ filteredOrders # <<>>


\* C25: right after every open of the modal each staged filter equals its
\* committed one, and the open leaves the committed ones alone; an Apply
\* that follows the open directly leaves the committed filters unchanged.
OpenSnapshotsCommitted ==
  [][/\ lastOp' = "open"
        => /\ isModalVisible'
           /\ Staged' = Committed'
           /\ Committed' = Committed
     /\ (lastOp = "open" /\ lastOp' = "apply") => Committed' = Committed]_vars

OpenSnapshotsCommittedWitness ==
  /\ lastOp = "open"
  /\ isModalVisible
  /\ Committed = [bits |-> "Turori", status |-> "all", date |-> "today"]
  /\ Staged = Committed


\* C27: isLoading is true in every state in which a load of the orders
\* list is in flight.
LoadingWhileInFlight == InFlight(IsReload) # {} => isLoading


----------------------------------------------------------------------------
(* Every request is answered: the loads of the Orders screen and the
   mutations of the edit-order, order-summary and Items screens *)

InitLive ==
  \/ \E p \in RouteParams : Mount(p, WednesdayAfternoon(Ist), Ist)
  \/ /\ QuietTab(NoParams, WednesdayAfternoon(Ist), Ist)
     /\ \/ \E o \in LoadedOrders : EditOrderOpen(o)
        \/ \E items \in SummaryItems : OrderSummaryOpen(items)
        \/ \E ps \in FormProducts : ItemsTabOpen(ps)

\* the answer, good or bad, to request i
Respond(i) ==
  \/ AnswerOrders(i)
  \/ ReceiveError(i)
  \/ SaveDone(i)
  \/ SaveFailed(i)
  \/ CompleteDone(i)
  \/ CompleteFailed(i)
  \/ ConfirmDone(i)
  \/ ConfirmFailed(i)
  \/ BrandCleanupDone(i)
  \/ BrandCleanupFailed(i)
  \/ \E ps \in FormProducts : BrandCleanupReloaded(i, ps)
  \/ BrandCleanupReloadFailed(i)

NextLive ==
  \/ form = "none" /\ OpenFilterModal
  \/ \E v \in ModalStatus : SetTempStatusFilter(v)
  \/ ApplyFilters
  \/ form = "none" /\ Refresh
  \/ SaveOrder
  \/ CompletePress
  \/ CompleteCancel
  \/ CompleteConfirm
  \/ EditSuccessOk
  \/ ConfirmOrder
  \/ SummarySuccessOk
  \/ BrandCleanupPress
  \/ BrandCleanupCancel
  \/ BrandCleanupConfirm
  \/ \E i \in 1..Len(inflight) : Respond(i)

\* the request that has waited longest is answered in the end, so every
\* request is
SpecLive == InitLive /\ [][NextLive]_vars /\ WF_vars(Respond(1))

\* C28: when every request is answered, isLoading and refreshing each
\* become false again and turn true only in a step that issues a load, and
\* isSaving, isCreatingOrder and isCleaningUp each become false again.
LoadingEnds ==
  /\ isLoading ~> ~isLoading
  /\ refreshing ~> ~refreshing
  /\ isSaving ~> ~isSaving
  /\ isCreatingOrder ~> ~isCreatingOrder
  /\ isCleaningUp ~> ~isCleaningUp
  /\ [][((~isLoading /\ isLoading') \/ (~refreshing /\ refreshing'))
        => /\ Len(inflight') = Len(inflight) + 1
           /\ IsReload(inflight'[Len(inflight')])]_vars

LoadingEndsWitness ==
  /\ lastOp = "loadFailed"
  /\ inflight = <<>>
  /\ ~isLoading /\ ~refreshing
  /\ lastAlert = "Failed to load orders"


----------------------------------------------------------------------------
(* The Orders screen stays mounted while the clock of the device runs *)

\* a quarter of a day
ClockStep == MinutesPerDay \div 4

\* the device clock moves on while the screen stays mounted: no state of the
\* component changes, and the useMemo with no dependencies keeps its value
ClockAdvance ==
  /\ mounted
  /\ now + ClockStep <= WednesdayAfternoon(tz) + MinutesPerDay
  /\ now' = now + ClockStep
  /\ lastOp' = "clock"
  /\ UNCHANGED <<mounted, incoming, refreshing, searchQuery,
                 debouncedSearchQuery, filterVars, tempVars, isModalVisible,
                 orders, isLoading, debounceTimeoutRef, burstFires, burstKeys,
                 timers, sinceKey, dateFilterFunctions, tz, inflight,
                 cleanupVars, historyVars, dialogVars, formVars>>

\* orders of Tuesday 5, Wednesday 6 and Thursday 7 March 2024
ClockOrders ==
  [bit : {"Turori"}, status : {"Completed"},
   date : {FormatDay(64), FormatDay(65), FormatDay(66)},
   counterName : {<<"A", "b">>}]

ClockPayloads == Payloads(ClockOrders)

InitClock ==
  \E p \in DateParams, z \in DateZones :
     Settled(p, <<>>, WednesdayAfternoon(z), z)

NextClock ==
  \/ ClockAdvance
  \/ Refresh
  \/ \E i \in 1..Len(inflight) : \E payload \in ClockPayloads :
       ReceiveOrders(i, payload)
  \/ \E i \in 1..Len(inflight) : ReceiveError(i)

SpecClock == InitClock /\ [][NextClock]_vars

\* C30: while the Orders screen is mounted, the thresholds of the 'today',
\* 'week' and 'month' filters lie on the current calendar day, on the most
\* recent Sunday and on the first day of the current month.
BoundariesFollowClock ==
  mounted =>
    /\ LocalDay(dateFilterFunctions.startOfToday.t, tz) = Today
    /\ LocalDay(dateFilterFunctions.startOfWeek.t, tz) = Today - getDay(Today)
    /\ LocalDay(dateFilterFunctions.startOfMonth.t, tz) = FirstOfMonth(Today)


----------------------------------------------------------------------------
(* Drag-to-reorder of the brand list of the new-order screen *)

\* brandAPI.updateOrder(brandOrders)
updateOrder(brandOrders) ==
  [api |-> "brands.updateOrder", body |-> [brandOrders |-> brandOrders]]

\* data.map((brand, index) => ({ brandId: brand._id, order: index }))
brandOrdersOf(data) ==
  [k \in 1..Len(data) |-> [brandId |-> data[k].id, order |-> k - 1]]

\* the orders a list of brands shows when it is sorted by the order field
OrderFieldsOf(data) == [b \in {data[k].id : k \in 1..Len(data)} |->
                          (CHOOSE k \in 1..Len(data) : data[k].id = b) - 1]

\* the new-order screen showing the brands bs as the backend sorts them
NewOrderBrandsOpen(bs) ==
  /\ form = "new-order" /\ route = "" /\ formDialog = ""
  /\ order = <<>>
  /\ orderItems = <<>>
  /\ selectedDate = MkDate(now)
  /\ isSaving = FALSE /\ isCreatingOrder = FALSE /\ isCreating = FALSE
  /\ productName = <<>> /\ selectedBrand = "" /\ newBrandName = <<>>
  /\ brands = bs
  /\ products = <<>> /\ itemsLoading = FALSE /\ isCleaningUp = FALSE
  /\ retailerName = <<>> /\ phoneNo = <<>> /\ selectedBit = ""
  /\ storedOrder = OrderFieldsOf(bs)

\* handleDragEnd up to its await: the list takes the dropped order and the
\* request carries the index of every brand
DragEnd(data) ==
  /\ form = "new-order"
  /\ Len(inflight) < MaxInFlight
  /\ brands' = data
  /\ inflight' = Append(inflight, updateOrder(brandOrdersOf(data)))
  /\ lastOp' = "drop"
  /\ UNCHANGED <<ordersVars, lastAlert, form, route, formDialog, orderItems,
                 editVars, isCreatingOrder, isCreating, productName,
                 selectedBrand, newBrandName, itemsVars, retailerVars>>

\* a handleDragEnd whose catch puts the list back and tells the user
ReorderFailedRollsBack(i) ==
  /\ i \in 1..Len(inflight)
  /\ inflight[i].api = "brands.updateOrder"
  /\ inflight' = RemoveAt(inflight, i)
  /\ brands' = [k \in 1..Len(brands) |->
                  CHOOSE b \in Range(brands) : storedOrder[b.id] = k - 1]
  /\ lastAlert' = "Error"
  /\ lastOp' = "reorderFailed"
  /\ UNCHANGED <<ordersVars, form, route, formDialog, orderItems,
                 editVars, isCreatingOrder, isCreating, productName,
                 selectedBrand, newBrandName, itemsVars, retailerVars>>

\* handleDragEnd after a rejected await: console.error and nothing else
ReorderFailed(i) ==
  /\ i \in 1..Len(inflight)
  /\ inflight[i].api = "brands.updateOrder"
  /\ inflight' = RemoveAt(inflight, i)
  /\ lastOp' = "reorderFailed"
  /\ UNCHANGED <<ordersVars, lastAlert, formVars>>

\* PUT /brands/order reaches the backend, which stores the order of every
\* brand the body names, and handleDragEnd ends after its await
ReorderDone(i) ==
  /\ i \in 1..Len(inflight)
  /\ inflight[i].api = "brands.updateOrder"
  /\ inflight' = RemoveAt(inflight, i)
  /\ storedOrder' =
       LET brandOrders == inflight[i].body.brandOrders
       IN  [b \in DOMAIN storedOrder |->
              IF \E k \in 1..Len(brandOrders) : brandOrders[k].brandId = b
              THEN brandOrders[CHOOSE k \in 1..Len(brandOrders) :
                                 brandOrders[k].brandId = b].order
              ELSE storedOrder[b]]
  /\ lastOp' = "reordered"
  /\ UNCHANGED <<ordersVars, lastAlert, form, route, formDialog, orderItems,
                 editVars, isCreatingOrder, isCreating, productVars,
                 retailerName, phoneNo, selectedBit>>

\* three brands, as the backend returns them
ReorderBrands ==
  <<[id |-> "b1", name |-> "B1"], [id |-> "b2", name |-> "B2"],
    [id |-> "b3", name |-> "B3"]>>

\* every order a drop can leave the list bs in
Drops(bs) ==
  {[k \in 1..Len(bs) |-> bs[p[k]]] : p \in Permutations(1..Len(bs))}

InitReorder ==
  /\ QuietTab(NoParams, WednesdayAfternoon(Ist), Ist)
  /\ NewOrderBrandsOpen(ReorderBrands)

NextReorder ==
  \/ \E data \in Drops(brands) : DragEnd(data)
  \/ \E i \in 1..Len(inflight) : ReorderDone(i)
  \/ \E i \in 1..Len(inflight) : ReorderFailed(i)

SpecReorder == InitReorder /\ [][NextReorder]_vars

\* C21: a drop puts the list in the dropped order at once and sends one
\* request that gives every brand the index of its position, 0 to n - 1;
\* when the request fails the list keeps the dropped order and no alert or
\* dialog is shown.
OptimisticReorder ==
  [][/\ lastOp' = "drop" =>
          /\ Range(brands') = Range(brands) /\ Len(brands') = Len(brands)
          /\ Len(inflight') = Len(inflight) + 1
          /\ SubSeq(inflight', 1, Len(inflight)) = inflight
          /\ LET r == inflight'[Len(inflight')]
             IN  /\ r.api = "brands.updateOrder"
                 /\ Len(r.body.brandOrders) = Len(brands')
                 /\ \A k \in 1..Len(brands') :
                      /\ r.body.brandOrders[k].brandId = brands'[k].id
                      /\ r.body.brandOrders[k].order = k - 1
     /\ lastOp' \in {"reorderFailed", "reordered"} =>
          /\ brands' = brands
          /\ lastAlert' = lastAlert
          /\ formDialog' = formDialog /\ form' = form /\ route' = route]_vars

OptimisticReorderWitness ==
  /\ lastOp = "reorderFailed"
  /\ inflight = <<>>
  /\ brands # ReorderBrands
  /\ storedOrder = OrderFieldsOf(ReorderBrands)
  /\ lastAlert = "" /\ formDialog = ""

\* every reorder request succeeds
NextReorderOk ==
  \/ \E data \in Drops(brands) : DragEnd(data)
  \/ \E i \in 1..Len(inflight) : ReorderDone(i)

SpecReorderOk == InitReorder /\ [][NextReorderOk]_vars

\* C29: when no reorder request is in flight any more, the backend stores
\* for every brand the index of its position in the local list.
BackendOrderIsLocalOrder ==
  (form = "new-order" /\ inflight = <<>>) =>
    storedOrder = OrderFieldsOf(brands)

====
